---- MODULE Spec2Model ----
(***************************************************************************)
(* Analysis-and-decision pipeline of DokyOS: timeframe resampler,          *)
(* probability engine, decision maker, DeepSeek optimizer and the runtime  *)
(* loop that drives them.                                                   *)
(*                                                                         *)
(* Numbers.  Probabilities and confidences are Python floats in the        *)
(* source; here they are exact fixed-point integers in units of            *)
(* 1/ProbScale, so 0.80 is Pct(80).  Prices are integers in ticks; the     *)
(* snapshot closes that are drawn are multiples of 1000 ticks so that the  *)
(* percentage stops (x 0.98, x 0.995, ...) are exact.                      *)
(*                                                                         *)
(* `from config import settings` is read as giving the Settings values     *)
(* (the package initialiser is not part of the sources at hand).           *)
(***************************************************************************)
EXTENDS Integers, Sequences, FiniteSets, TLC

\* ------------------------------------------------------------------------
\* Units and dictionaries
\* ------------------------------------------------------------------------

ProbScale == 100 * 6000

Pct(x) == x * (ProbScale \div 100)

\* dict.get(k, default)
Get(d, k, default) == IF k \in DOMAIN d THEN d[k] ELSE default

\* {} (empty dict)
EmptyDict == [k \in {} |-> 0]

\* `not d` for a dict d
IsEmptyDict(d) == DOMAIN d = {}

\* An optional value: None is the empty sequence, a value v is <<v>>.
None == <<>>

Some(v) == <<v>>

Min2(a, b) == IF a < b THEN a ELSE b

Max2(a, b) == IF a > b THEN a ELSE b

RECURSIVE SumSeq(_)
SumSeq(s) == IF s = <<>> THEN 0 ELSE Head(s) + SumSeq(Tail(s))

RECURSIVE MaxSeq(_)
MaxSeq(s) == IF Len(s) = 1 THEN s[1] ELSE Max2(Head(s), MaxSeq(Tail(s)))

RECURSIVE MinSeq(_)
MinSeq(s) == IF Len(s) = 1 THEN s[1] ELSE Min2(Head(s), MinSeq(Tail(s)))

\* ------------------------------------------------------------------------
\* Bounds of the model
\* ------------------------------------------------------------------------

\* longest base candle sequence handed to the resampler
MaxLen == 11

\* most pattern events one pair carries into the probability engine
MaxPatterns == 2

\* polling cycles the runtime loop is followed for
MaxCycles == 2

\* signals the optimization log is followed for
MaxRecords == 1003

\* entries the learner's store is followed up to
MaxStore == 550

\* a repeated update is followed while the store is shorter than this
MaxReplayLen == 130

\* most timeframes of a pair handed to the structure engine
MaxTimeframes == 3

\* longest candle series handed to the gap detectors
MaxCandles == 4

\* ------------------------------------------------------------------------
\* State
\* ------------------------------------------------------------------------

VARIABLES
    settings,             \* config.settings.Settings (the recognised options)
    account,              \* the account's current drawdown and daily loss (percent)
    analysis,             \* the analysis dict handed to DecisionMaker.generate
    decisions,            \* list returned by DecisionMaker.generate, or None before
    structure_analysis,   \* ProbabilityEngine.calculate: structure input
    pattern_analysis,     \* ProbabilityEngine.calculate: pattern input
    probabilities,        \* ProbabilityEngine.calculate: result, or None before
    data,                 \* base candle sequence given to _resample_data
    target_tf,            \* target timeframe label
    resampled,            \* _resample_data(data, target_tf), or None before
    reresampled,          \* _resample_data(resampled, target_tf), or None before
    connector_enabled,    \* DeepSeekConnector.enabled
    signal_in,            \* signal handed to _optimize_single_signal
    technical_analysis,   \* technical analysis of the signal's pair
    advisor_reply,        \* what the advisory request produced for this signal
    optimized_signal,     \* result of the optimisation, or None before
    optimization_history, \* DeepSeekOptimizer.optimization_history
    signal_after,         \* the caller's signal dict after the optimisation
    utcnow,               \* what datetime.utcnow() reads (ticks)
    pc,                   \* position of runtime_loop
    is_running,           \* DokyOS.is_running
    cycle_count,          \* runtime_loop: cycle_count
    consecutive_errors,   \* runtime_loop: consecutive_errors
    market_data,          \* result of brain.fetch_market_data in this cycle
    tf_data,              \* analyze_market: the synchronised data (a local)
    work,                 \* analyze_market: the analysis dict under construction
                          \* (the local `analysis`)
    analysis_result,      \* result of _safe_analyze_market in this cycle
    analysis_results,     \* BrainController.analysis_results
    signals,              \* result of brain.generate_signals in this cycle
    steps,                \* pipeline steps taken in the current cycle, in order
    sink,                 \* signals handed to telegram.send_signals so far
    last_log,             \* the latest line runtime_loop has logged
    performance_data,     \* AdaptiveLearner.performance_data
    made_in,              \* history: the cycle each part of work, of
                          \* analysis_result and of analysis_results was made in
    error_streak,         \* history: cycles in a row, up to the latest one that
                          \* ended in a runtime error, that ended in one
    last_error_cycle,     \* history: the latest cycle that ended in a runtime error
    backoff_time,         \* seconds of the latest back-off sleep (0: none yet)
    timeframes,           \* _analyze_pair: the pair's timeframes, in dict order
    snapshot,             \* _analyze_pair(pair, timeframes), or None before
    candles,              \* candles of one timeframe given to the gap detectors
    detected,             \* what the detectors return on candles, or None before
    boot                  \* main(): position, outcome of startup, components
                          \* initialised, the component whose initialize raised

gateVars == <<settings, account, analysis, decisions>>

probVars == <<structure_analysis, pattern_analysis, probabilities>>

resVars == <<data, target_tf, resampled, reresampled>>

calVars == <<connector_enabled, signal_in, technical_analysis, advisor_reply,
             optimized_signal, optimization_history, signal_after, utcnow>>

errVars == <<error_streak, last_error_cycle, backoff_time>>

loopVars == <<pc, is_running, cycle_count, consecutive_errors, market_data,
              tf_data, work, analysis_result, analysis_results, signals, steps,
              sink, last_log, performance_data, made_in, errVars>>

structVars == <<timeframes, snapshot>>

fvgVars == <<candles, detected>>

bootVars == <<boot>>

otherThanGate == <<structure_analysis, pattern_analysis, probabilities,
                   data, target_tf, resampled, reresampled,
                   connector_enabled, signal_in, technical_analysis, advisor_reply,
                   optimized_signal, optimization_history, signal_after, utcnow,
                   pc, is_running, cycle_count, consecutive_errors, market_data,
                   tf_data, work, analysis_result, analysis_results, signals, steps,
                  sink, last_log, performance_data, made_in, errVars,
                  structVars, fvgVars, bootVars>>

otherThanProb == <<settings, account, analysis, decisions,
                   data, target_tf, resampled, reresampled,
                   connector_enabled, signal_in, technical_analysis, advisor_reply,
                   optimized_signal, optimization_history, signal_after, utcnow,
                   pc, is_running, cycle_count, consecutive_errors, market_data,
                   tf_data, work, analysis_result, analysis_results, signals, steps,
                  sink, last_log, performance_data, made_in, errVars,
                  structVars, fvgVars, bootVars>>

otherThanRes == <<settings, account, analysis, decisions,
                  structure_analysis, pattern_analysis, probabilities,
                  connector_enabled, signal_in, technical_analysis, advisor_reply,
                  optimized_signal, optimization_history, signal_after, utcnow,
                  pc, is_running, cycle_count, consecutive_errors, market_data,
                  tf_data, work, analysis_result, analysis_results, signals, steps,
                  sink, last_log, performance_data, made_in, errVars,
                  structVars, fvgVars, bootVars>>

otherThanCal == <<settings, account, analysis, decisions,
                  structure_analysis, pattern_analysis, probabilities,
                  data, target_tf, resampled, reresampled,
                  pc, is_running, cycle_count, consecutive_errors, market_data,
                  tf_data, work, analysis_result, analysis_results, signals, steps,
                  sink, last_log, performance_data, made_in, errVars,
                  structVars, fvgVars, bootVars>>

\* the runtime loop reads settings and nothing else of the other groups
otherThanLoop == <<settings, account, analysis, decisions,
                   structure_analysis, pattern_analysis, probabilities,
                   data, target_tf, resampled, reresampled,
                   connector_enabled, signal_in, technical_analysis, advisor_reply,
                   optimized_signal, optimization_history, signal_after, utcnow,
                   structVars, fvgVars, bootVars>>

otherThanStruct == <<gateVars, probVars, resVars, calVars, loopVars, fvgVars, bootVars>>

otherThanFvg == <<gateVars, probVars, resVars, calVars, loopVars, structVars, bootVars>>

otherThanBoot == <<gateVars, probVars, resVars, calVars, structVars, fvgVars>>

vars == <<settings, account, analysis, decisions,
          structure_analysis, pattern_analysis, probabilities,
          data, target_tf, resampled, reresampled,
          connector_enabled, signal_in, technical_analysis, advisor_reply,
          optimized_signal, optimization_history, signal_after, utcnow,
          pc, is_running, cycle_count, consecutive_errors, market_data,
          tf_data, work, analysis_result, analysis_results, signals, steps,
                  sink, last_log, performance_data, made_in, errVars,
                  structVars, fvgVars, bootVars>>

\* ------------------------------------------------------------------------
\* config/settings.py
\* ------------------------------------------------------------------------

DEFAULT_RR_RATIO == 3

MIN_CONFIDENCE == Pct(80)

MAX_DRAWDOWN_PERCENT == 5

DAILY_LOSS_LIMIT == 2

ENABLED_TIMEFRAMES == <<"1m", "5m", "15m", "1h", "4h", "1d">>

PRIMARY_TIMEFRAME == "15m"

Settings == [DEFAULT_RR_RATIO |-> DEFAULT_RR_RATIO,
             MIN_CONFIDENCE |-> MIN_CONFIDENCE,
             MAX_DRAWDOWN_PERCENT |-> MAX_DRAWDOWN_PERCENT,
             DAILY_LOSS_LIMIT |-> DAILY_LOSS_LIMIT]

\* config/pairs.py (the pairs the model follows)
Pairs == {"BTCUSDT", "ETHUSDT"}

\* ------------------------------------------------------------------------
\* config/risk_config.py
\* ------------------------------------------------------------------------

\* entry_price * 0.98 etc., in ticks
calculate_stop_loss(entry_price, direction, volatility) ==
    IF direction = "BUY"
    THEN IF volatility = "high" THEN (entry_price * 980) \div 1000
         ELSE IF volatility = "medium" THEN (entry_price * 990) \div 1000
         ELSE (entry_price * 995) \div 1000
    ELSE IF volatility = "high" THEN (entry_price * 1020) \div 1000
         ELSE IF volatility = "medium" THEN (entry_price * 1010) \div 1000
         ELSE (entry_price * 1005) \div 1000

calculate_take_profit(entry_price, direction, rr_ratio, stop_loss) ==
    IF direction = "BUY"
    THEN entry_price + ((entry_price - stop_loss) * rr_ratio)
    ELSE entry_price - ((stop_loss - entry_price) * rr_ratio)

validate_trade_signal_inverted(s, signal_confidence, current_drawdown, daily_loss) ==
    IF signal_confidence > s.MIN_CONFIDENCE
    THEN <<FALSE, "Confidence too low">>
    ELSE IF current_drawdown >= s.MAX_DRAWDOWN_PERCENT
    THEN <<FALSE, "Max drawdown reached">>
    ELSE IF daily_loss >= s.DAILY_LOSS_LIMIT
    THEN <<FALSE, "Daily loss limit reached">>
    ELSE <<TRUE, "Valid signal">>

\* s is the settings object the method reads
validate_trade_signal(s, signal_confidence, current_drawdown, daily_loss) ==
    IF signal_confidence < s.MIN_CONFIDENCE
    THEN <<FALSE, "Confidence too low">>
    ELSE IF current_drawdown >= s.MAX_DRAWDOWN_PERCENT
    THEN <<FALSE, "Max drawdown reached">>
    ELSE IF daily_loss >= s.DAILY_LOSS_LIMIT
    THEN <<FALSE, "Daily loss limit reached">>
    ELSE <<TRUE, "Valid signal">>

\* ------------------------------------------------------------------------
\* core/decision_maker.py
\* ------------------------------------------------------------------------

determine_direction_no_tiebreak(s, prob_data, structure_data) ==
    LET buy_prob == Get(prob_data, "buy_probability", 0)
        sell_prob == Get(prob_data, "sell_probability", 0)
        min_confidence == s.MIN_CONFIDENCE
    IN  IF buy_prob >= min_confidence THEN "BUY"
        ELSE IF sell_prob >= min_confidence THEN "SELL"
        ELSE "WAIT"

_determine_direction(s, prob_data, structure_data) ==
    LET buy_prob == Get(prob_data, "buy_probability", 0)
        sell_prob == Get(prob_data, "sell_probability", 0)
        min_confidence == s.MIN_CONFIDENCE
    IN  IF buy_prob >= min_confidence /\ buy_prob > sell_prob THEN "BUY"
        ELSE IF sell_prob >= min_confidence /\ sell_prob > buy_prob THEN "SELL"
        ELSE "WAIT"

\* The signal for the pair as Some(signal), or None.  The try/except turns a
\* KeyError (pair without a structure entry) into None as well.
_evaluate_pair(s, pair, an, now) ==
    LET prob_data == Get(an.probability, pair, EmptyDict)
        confidence == Get(prob_data, "confidence", 0)
        valid == validate_trade_signal(s, confidence, 0, 0)
    IN  IF ~valid[1] THEN None
        ELSE
        LET direction == _determine_direction(s, prob_data,
                                              Get(an.structure, pair, EmptyDict))
        IN  IF direction = "WAIT" THEN None
            ELSE IF pair \notin DOMAIN an.structure THEN None
            ELSE
            LET price_data == Get(an.structure[pair], "price_action", EmptyDict)
                entry == Get(price_data, "close", 0)
                volatility == Get(an.structure[pair], "volatility", "medium")
                stop_loss == calculate_stop_loss(entry, direction, volatility)
                take_profit == calculate_take_profit(entry, direction,
                                                     s.DEFAULT_RR_RATIO, stop_loss)
            IN  Some([pair |-> pair,
                      direction |-> direction,
                      entry |-> entry,
                      stop_loss |-> stop_loss,
                      take_profit |-> take_profit,
                      confidence |-> confidence,
                      timestamp |-> now,
                      timeframe |-> Get(an.structure[pair], "primary_tf", "15m"),
                      reason |-> Get(prob_data, "reason", <<"High probability setup">>)])

\* iteration order of the dict keys (insertion order follows the pair list)
PairSeq == <<"BTCUSDT", "ETHUSDT">>

RECURSIVE generate_from(_, _, _, _)
generate_from(s, an, i, now) ==
    IF i > Len(PairSeq) THEN <<>>
    ELSE (IF PairSeq[i] \in DOMAIN an.probability
          THEN _evaluate_pair(s, PairSeq[i], an, now)
          ELSE <<>>) \o generate_from(s, an, i + 1, now)

\* an = None stands for a falsy analysis
generate(s, an, now) ==
    IF an = None THEN <<>> ELSE generate_from(s, an[1], 1, now)

\* ------------------------------------------------------------------------
\* Decision Gate: inputs and the generate step
\* ------------------------------------------------------------------------

\* minimum-confidence settings the gate is run with (default 0.80)
MinConfidences == {Pct(60), MIN_CONFIDENCE, Pct(88)}

SettingsChoices == {[Settings EXCEPT !.MIN_CONFIDENCE = m] : m \in MinConfidences}

\* the account's current drawdown / daily loss, in percent
AccountChoices == [current_drawdown : {0, 6}, daily_loss : {0, 2}]

\* ProbabilityResult of one pair: any confidence, any directional split
ProbDataChoices ==
    {[confidence |-> c, buy_probability |-> Pct(sp[1]),
      sell_probability |-> Pct(sp[2]), reason |-> <<"Mixed signals">>] :
        c \in {Pct(60), Pct(80), Pct(90)},
        sp \in {<<88, 12>>, <<12, 88>>, <<60, 40>>, <<85, 85>>}}

\* price_action of a snapshot: {} when no timeframe had enough history
PriceActionChoices == {EmptyDict, [close |-> 2000]}

StructureDataChoices ==
    {[price_action |-> pa, volatility |-> v, primary_tf |-> PRIMARY_TIMEFRAME] :
        pa \in PriceActionChoices, v \in {"low", "medium", "high"}}

\* partial maps pair -> value
PartialMaps(D, V) == UNION {[P -> V] : P \in SUBSET D}

AnalysisChoices ==
    {[probability |-> pr, structure |-> st] :
        pr \in PartialMaps(Pairs, ProbDataChoices),
        st \in PartialMaps(Pairs, StructureDataChoices)}

GateInit ==
    /\ settings \in SettingsChoices
    /\ account \in AccountChoices
    /\ analysis \in {None} \cup {Some(a) : a \in AnalysisChoices}
    /\ decisions = None

\* DecisionMaker.generate(analysis)
GateGenerate ==
    /\ decisions = None
    /\ decisions' = Some(generate(settings, analysis, utcnow))
    /\ UNCHANGED <<settings, account, analysis>>
    /\ UNCHANGED otherThanGate

\* ------------------------------------------------------------------------
\* core/multi_tf_synchronizer.py
\* ------------------------------------------------------------------------

_timeframe_to_minutes(tf) ==
    CASE tf = "1m" -> 1
      [] tf = "5m" -> 5
      [] tf = "15m" -> 15
      [] tf = "1h" -> 60
      [] tf = "4h" -> 240
      [] tf = "1d" -> 1440
      [] OTHER -> 1

create_resampled_candle_first_ts(group, tf) ==
    [open |-> group[1].open,
     high |-> MaxSeq([i \in 1..Len(group) |-> group[i].high]),
     low |-> MinSeq([i \in 1..Len(group) |-> group[i].low]),
     close |-> group[Len(group)].close,
     volume |-> SumSeq([i \in 1..Len(group) |-> Get(group[i], "volume", 0)]),
     timestamp |-> group[1].timestamp,
     timeframe |-> tf]

create_resampled_candle_last_high(group, tf) ==
    [open |-> group[1].open,
     high |-> group[Len(group)].high,
     low |-> MinSeq([i \in 1..Len(group) |-> group[i].low]),
     close |-> group[Len(group)].close,
     volume |-> SumSeq([i \in 1..Len(group) |-> Get(group[i], "volume", 0)]),
     timestamp |-> group[Len(group)].timestamp,
     timeframe |-> tf]

_create_resampled_candle(group, tf) ==
    [open |-> group[1].open,
     high |-> MaxSeq([i \in 1..Len(group) |-> group[i].high]),
     low |-> MinSeq([i \in 1..Len(group) |-> group[i].low]),
     close |-> group[Len(group)].close,
     volume |-> SumSeq([i \in 1..Len(group) |-> Get(group[i], "volume", 0)]),
     timestamp |-> group[Len(group)].timestamp,
     timeframe |-> tf]

\* the for loop of _resample_data from candle i on
RECURSIVE resample_loop(_, _, _, _, _, _)
resample_loop(d, i, current_group, out, tf_minutes, tf) ==
    IF i > Len(d) THEN out
    ELSE LET group == Append(current_group, d[i])
         IN  IF Len(group) >= tf_minutes
             THEN resample_loop(d, i + 1, <<>>,
                                Append(out, _create_resampled_candle(group, tf)),
                                tf_minutes, tf)
             ELSE resample_loop(d, i + 1, group, out, tf_minutes, tf)

_resample_data(d, tf) ==
    IF d = <<>> THEN <<>>
    ELSE resample_loop(d, 1, <<>>, <<>>, _timeframe_to_minutes(tf), tf)

\* ------------------------------------------------------------------------
\* Resampler: inputs and steps
\* ------------------------------------------------------------------------

\* base candles (open, high, low, close[, volume]); the second has no volume key
CandleShapes ==
    {[open |-> 10, high |-> 12, low |-> 9, close |-> 11, volume |-> 100],
     [open |-> 13, high |-> 15, low |-> 8, close |-> 14]}

\* a timeframe label that _timeframe_to_minutes does not know
UnknownTimeframe == "2m"

TimeframeChoices ==
    {ENABLED_TIMEFRAMES[i] : i \in 1..Len(ENABLED_TIMEFRAMES)} \cup {UnknownTimeframe}

\* a base candle of the given shape, stamped with its minute
Candle(shape, ts) ==
    [k \in DOMAIN shape \cup {"timestamp"} |->
        IF k = "timestamp" THEN ts ELSE shape[k]]

ResInit ==
    /\ data = <<>>
    /\ target_tf \in TimeframeChoices
    /\ resampled = None
    /\ reresampled = None

\* the provider delivers the next base candle (strictly increasing timestamps)
AppendCandle ==
    /\ resampled = None
    /\ Len(data) < MaxLen
    /\ \E shape \in CandleShapes :
          data' = Append(data, Candle(shape, Len(data) + 1))
    /\ UNCHANGED <<target_tf, resampled, reresampled>>
    /\ UNCHANGED otherThanRes

\* _resample_data(data, target_tf)
Resample ==
    /\ resampled = None
    /\ resampled' = Some(_resample_data(data, target_tf))
    /\ UNCHANGED <<data, target_tf, reresampled>>
    /\ UNCHANGED otherThanRes

\* _resample_data applied to its own output, same target timeframe
ReResample ==
    /\ resampled # None
    /\ reresampled = None
    /\ reresampled' = Some(_resample_data(resampled[1], target_tf))
    /\ UNCHANGED <<data, target_tf, resampled>>
    /\ UNCHANGED otherThanRes

\* ------------------------------------------------------------------------
\* core/probability_engine.py
\* ------------------------------------------------------------------------

\* self.weights, in hundredths
weights == [structure_based |-> 35, pattern_based |-> 30,
            volume_based |-> 20, momentum_based |-> 15]

structure_probability_undivided(structure_data) ==
    LET c1 == Get(structure_data, "trend_strength", 0) > Pct(70)
        c2 == Get(structure_data, "liquidity_zones", <<>>) # <<>>
        c3 == Get(structure_data, "bos_confirmed", FALSE)
        c4 == Get(structure_data, "choch_confirmed", FALSE)
        score == (IF c1 THEN Pct(80) ELSE 0) + (IF c2 THEN Pct(70) ELSE 0)
                 + (IF c3 THEN Pct(90) ELSE 0) + (IF c4 THEN Pct(80) ELSE 0)
        factors == (IF c1 THEN 1 ELSE 0) + (IF c2 THEN 1 ELSE 0)
                   + (IF c3 THEN 1 ELSE 0) + (IF c4 THEN 1 ELSE 0)
    IN  IF factors > 0 THEN score ELSE Pct(50)

_structure_probability(structure_data) ==
    LET c1 == Get(structure_data, "trend_strength", 0) > Pct(70)
        c2 == Get(structure_data, "liquidity_zones", <<>>) # <<>>
        c3 == Get(structure_data, "bos_confirmed", FALSE)
        c4 == Get(structure_data, "choch_confirmed", FALSE)
        score == (IF c1 THEN Pct(80) ELSE 0) + (IF c2 THEN Pct(70) ELSE 0)
                 + (IF c3 THEN Pct(90) ELSE 0) + (IF c4 THEN Pct(80) ELSE 0)
        factors == (IF c1 THEN 1 ELSE 0) + (IF c2 THEN 1 ELSE 0)
                   + (IF c3 THEN 1 ELSE 0) + (IF c4 THEN 1 ELSE 0)
    IN  IF factors > 0 THEN score \div factors ELSE Pct(50)

\* the weight one pattern adds to the score (the if/elif chain of the loop)
pattern_weight(pattern) ==
    IF pattern["type"] = "OB" /\ pattern["strength"] = "strong" THEN Pct(80)
    ELSE IF pattern["type"] = "FVG" /\ pattern["active"] THEN Pct(70)
    ELSE IF pattern["type"] = "MSS" /\ pattern["confirmed"] THEN Pct(75)
    ELSE 0

\* the subscripts pattern['type'], pattern['strength'], ... raise KeyError
\* when the key the chain reaches is missing
pattern_raises(pattern) ==
    \/ "type" \notin DOMAIN pattern
    \/ /\ pattern["type"] = "OB"
       /\ "strength" \notin DOMAIN pattern
    \/ /\ pattern["type"] = "FVG"
       /\ "active" \notin DOMAIN pattern
    \/ /\ pattern["type"] = "MSS"
       /\ "confirmed" \notin DOMAIN pattern

_pattern_probability(pattern_data) ==
    IF IsEmptyDict(pattern_data) THEN Pct(50)
    ELSE LET patterns == Get(pattern_data, "patterns", <<>>)
             score == SumSeq([i \in 1..Len(patterns) |-> pattern_weight(patterns[i])])
         IN  Min2(score \div Max2(Len(patterns), 1), Pct(100))

_volume_probability(structure_data) ==
    LET volume_data == Get(structure_data, "volume_analysis", EmptyDict)
    IN  IF IsEmptyDict(volume_data) THEN Pct(50)
        ELSE
        LET c1 == Get(volume_data, "volume_trend", "") = "increasing"
            c2 == Get(volume_data, "delta_positive", FALSE)
            c3 == Get(volume_data, "oi_increasing", FALSE)
            score == (IF c1 THEN Pct(70) ELSE 0) + (IF c2 THEN Pct(60) ELSE 0)
                     + (IF c3 THEN Pct(50) ELSE 0)
            factors == (IF c1 THEN 1 ELSE 0) + (IF c2 THEN 1 ELSE 0)
                       + (IF c3 THEN 1 ELSE 0)
        IN  IF factors > 0 THEN score \div factors ELSE Pct(50)

_momentum_probability(structure_data) ==
    LET momentum_data == Get(structure_data, "momentum", EmptyDict)
    IN  IF IsEmptyDict(momentum_data) THEN Pct(50)
        ELSE LET rsi == Get(momentum_data, "rsi", 50)
             IN  IF 30 < rsi /\ rsi < 70 THEN Pct(70) ELSE Pct(40)

\* the split with the pattern events moving it: a pair with events leans
\* five points further the way of its trend
directional_probability_by_patterns(structure_data, pattern_data) ==
    LET trend_direction == Get(structure_data, "trend_direction", "neutral")
        lean == IF Get(pattern_data, "patterns", <<>>) # <<>> THEN Pct(5) ELSE 0
    IN  IF trend_direction = "bullish" THEN <<Pct(70) + lean, Pct(30) - lean>>
        ELSE IF trend_direction = "bearish" THEN <<Pct(30) - lean, Pct(70) + lean>>
        ELSE <<Pct(50), Pct(50)>>

\* the split with 0.8 / 0.2 in the place of 0.7 / 0.3
directional_probability_wider_split(structure_data, pattern_data) ==
    LET trend_direction == Get(structure_data, "trend_direction", "neutral")
    IN  IF trend_direction = "bullish" THEN <<Pct(80), Pct(20)>>
        ELSE IF trend_direction = "bearish" THEN <<Pct(20), Pct(80)>>
        ELSE <<Pct(50), Pct(50)>>

_directional_probability(structure_data, pattern_data) ==
    LET trend_direction == Get(structure_data, "trend_direction", "neutral")
    IN  IF trend_direction = "bullish" THEN <<Pct(70), Pct(30)>>
        ELSE IF trend_direction = "bearish" THEN <<Pct(30), Pct(70)>>
        ELSE <<Pct(50), Pct(50)>>

\* the phrases that ", ".join(reasons) joins
_generate_reason(struct_prob, pattern_prob, volume_prob, momentum_prob) ==
    LET reasons ==
            (IF struct_prob > Pct(70) THEN <<"Strong market structure">> ELSE <<>>)
            \o (IF pattern_prob > Pct(70) THEN <<"High pattern confidence">> ELSE <<>>)
            \o (IF volume_prob > Pct(60) THEN <<"Supportive volume">> ELSE <<>>)
            \o (IF momentum_prob > Pct(60) THEN <<"Good momentum">> ELSE <<>>)
    IN  IF reasons # <<>> THEN reasons ELSE <<"Mixed signals">>

\* the body of the try block of calculate for one pair
calculate_pair(sa, pa, pair) ==
    LET pattern_data == Get(pa, pair, EmptyDict)
        struct_prob == _structure_probability(sa[pair])
        pattern_prob == _pattern_probability(pattern_data)
        volume_prob == _volume_probability(sa[pair])
        momentum_prob == _momentum_probability(sa[pair])
        total_prob == (struct_prob * weights.structure_based
                       + pattern_prob * weights.pattern_based
                       + volume_prob * weights.volume_based
                       + momentum_prob * weights.momentum_based) \div 100
        dir == _directional_probability(sa[pair], pattern_data)
    IN  [confidence |-> total_prob,
         buy_probability |-> dir[1],
         sell_probability |-> dir[2],
         reason |-> _generate_reason(struct_prob, pattern_prob,
                                     volume_prob, momentum_prob)]

\* the pattern sub-score raises for the pair (the except branch skips it)
calculate_raises(pa, pair) ==
    LET pattern_data == Get(pa, pair, EmptyDict)
        patterns == Get(pattern_data, "patterns", <<>>)
    IN  \E i \in 1..Len(patterns) : pattern_raises(patterns[i])

calculate(sa, pa) ==
    [pair \in {q \in DOMAIN sa : ~calculate_raises(pa, q)} |->
        calculate_pair(sa, pa, pair)]

\* ------------------------------------------------------------------------
\* Probability Aggregator: inputs and the calculate step
\* ------------------------------------------------------------------------

VolumeAnalysisChoices ==
    {EmptyDict,
     [volume_trend |-> "increasing", volume_spike |-> FALSE, delta_positive |-> TRUE],
     [volume_trend |-> "decreasing", volume_spike |-> FALSE, delta_positive |-> FALSE,
      oi_increasing |-> TRUE]}

MomentumChoices ==
    {EmptyDict, [rsi |-> 50, momentum |-> "bearish"], [rsi |-> 70, momentum |-> "bullish"]}

\* liquidity_zones: none, or the two pools of _find_liquidity_zones
LiquidityChoices ==
    {<<>>, <<[price |-> 15, type |-> "liquidity_pool"],
             [price |-> 8, type |-> "liquidity_pool"]>>}

SnapshotChoices ==
    {[trend_direction |-> td, trend_strength |-> ts, liquidity_zones |-> lz,
      bos_confirmed |-> bos, choch_confirmed |-> choch,
      volume_analysis |-> va, momentum |-> mo,
      price_action |-> [open |-> 1990, high |-> 2010, low |-> 1980, close |-> 2000],
      volatility |-> "medium", primary_tf |-> PRIMARY_TIMEFRAME] :
        td \in {"bullish", "bearish", "neutral"}, ts \in {Pct(70), Pct(90)},
        lz \in LiquidityChoices, bos \in BOOLEAN, choch \in BOOLEAN,
        va \in VolumeAnalysisChoices, mo \in MomentumChoices}

\* the snapshot _analyze_pair returns when no timeframe has enough history
DefaultSnapshot ==
    [trend_direction |-> "neutral", trend_strength |-> Pct(70), key_levels |-> <<>>,
     liquidity_zones |-> <<>>,
     bos_confirmed |-> FALSE, choch_confirmed |-> FALSE,
     volume_analysis |-> EmptyDict, momentum |-> EmptyDict,
     price_action |-> EmptyDict, volatility |-> "medium",
     primary_tf |-> PRIMARY_TIMEFRAME]

PatternShapes ==
    {[type |-> "OB", strength |-> "strong"],
     [type |-> "FVG", active |-> TRUE],
     [type |-> "MSS", confirmed |-> TRUE],
     [type |-> "SFP", strength |-> "strong"],
     [type |-> "FVG"]}

PatternLists == UNION {[1..n -> PatternShapes] : n \in 0..MaxPatterns}

PatternDataChoices == {EmptyDict} \cup {[patterns |-> ps] : ps \in PatternLists}

ProbInit ==
    /\ \E p \in Pairs, snap \in SnapshotChoices, pd \in PatternDataChoices :
          /\ structure_analysis \in
                {[q \in {p} |-> snap],
                 [q \in Pairs |-> IF q = p THEN snap ELSE DefaultSnapshot]}
          /\ pattern_analysis \in {EmptyDict, [q \in {p} |-> pd]}
    /\ probabilities = None

\* ProbabilityEngine.calculate(structure_analysis, pattern_analysis)
Calculate ==
    /\ probabilities = None
    /\ probabilities' = Some(calculate(structure_analysis, pattern_analysis))
    /\ UNCHANGED <<structure_analysis, pattern_analysis>>
    /\ UNCHANGED otherThanProb

\* BrainController.generate_signals on the analysis that holds the
\* aggregator's result: DecisionMaker.generate(analysis)
DecideOnResult ==
    /\ probabilities # None
    /\ decisions = None
    /\ decisions' = Some(generate(settings,
                                  Some([structure |-> structure_analysis,
                                        patterns |-> pattern_analysis,
                                        probability |-> probabilities[1]]),
                                  utcnow))
    /\ UNCHANGED <<settings, account, analysis>>
    /\ UNCHANGED probVars
    /\ UNCHANGED <<resVars, calVars, loopVars, structVars, fvgVars, bootVars>>

\* ------------------------------------------------------------------------
\* deepseek/deepseek_connector.py
\* ------------------------------------------------------------------------

\* d[k] = v on a dict
DictSet(d, k, v) == [x \in DOMAIN d \cup {k} |-> IF x = k THEN v ELSE d[x]]

\* What the advisory request yields for a signal:
\*   no_response  _make_request returned None or a body without 'choices'
\*   unparsable   _parse_optimization_response returned None
\*   json         the parsed dict; has_boost: it has the key confidence_boost,
\*                numeric: that value is a number, boost: the number
\* optimize_signal_confidence mutates and returns the signal it is given.

\* optimize_signal_confidence storing the advisor's reasoning as the
\* signal's reason
optimize_signal_confidence_sets_reason(enabled, signal, reply) ==
    IF ~enabled THEN signal
    ELSE IF reply.kind # "json" THEN signal
    ELSE IF reply.empty THEN signal
    ELSE
    LET boost == IF reply.has_boost THEN reply.boost ELSE 0
        s1 == DictSet(signal, "ai_confidence_boost",
                      IF reply.has_boost /\ ~reply.numeric THEN "not a number"
                      ELSE boost)
    IN  IF (reply.has_boost /\ ~reply.numeric) \/ "confidence" \notin DOMAIN signal
        THEN s1
        ELSE DictSet(DictSet(s1, "adjusted_confidence",
                             Min2(signal["confidence"] + boost, Pct(95))),
                     "reason", <<"reasoning">>)

optimize_signal_confidence(enabled, signal, reply) ==
    IF ~enabled THEN signal
    ELSE IF reply.kind # "json" THEN signal
    ELSE IF reply.empty THEN signal
    ELSE
    LET boost == IF reply.has_boost THEN reply.boost ELSE 0
        s1 == DictSet(signal, "ai_confidence_boost",
                      IF reply.has_boost /\ ~reply.numeric THEN "not a number"
                      ELSE boost)
    IN  IF (reply.has_boost /\ ~reply.numeric) \/ "confidence" \notin DOMAIN signal
        THEN s1   \* TypeError / KeyError in the sum: the except returns the signal
        ELSE DictSet(DictSet(s1, "adjusted_confidence",
                             Min2(signal["confidence"] + boost, Pct(95))),
                     "ai_reasoning", "reasoning")

\* ------------------------------------------------------------------------
\* deepseek/deepseek_optimizer.py
\* ------------------------------------------------------------------------

\* the adjustments list of _apply_basic_optimization
basic_adjustments(signal, ta) ==
    LET pair_analysis == Get(ta, Get(signal, "pair", ""), EmptyDict)
        trend_direction == Get(pair_analysis, "primary_trend", "neutral")
        signal_direction == Get(signal, "direction", "")
        volume_analysis == Get(pair_analysis, "volume_analysis", EmptyDict)
        volume_trend == Get(volume_analysis, "volume_trend", "neutral")
        momentum == Get(pair_analysis, "momentum", EmptyDict)
        momentum_score == Get(momentum, "momentum_score", Pct(50))
    IN  (IF trend_direction = "bullish" /\ signal_direction = "BUY" THEN <<Pct(10)>>
         ELSE IF trend_direction = "bearish" /\ signal_direction = "SELL" THEN <<Pct(10)>>
         ELSE IF trend_direction # "neutral"
                 /\ \/ trend_direction = "bullish" /\ signal_direction = "SELL"
                    \/ trend_direction = "bearish" /\ signal_direction = "BUY"
              THEN <<0 - Pct(15)>>
         ELSE <<>>)
        \o (IF volume_trend = "increasing" THEN <<Pct(5)>>
            ELSE IF volume_trend = "decreasing" THEN <<0 - Pct(5)>>
            ELSE <<>>)
        \o (IF momentum_score > Pct(70) THEN <<Pct(5)>>
            ELSE IF momentum_score < Pct(30) THEN <<0 - Pct(5)>>
            ELSE <<>>)

_apply_basic_optimization(signal, ta) ==
    LET base_confidence == Get(signal, "confidence", Pct(50))
        adjustments == basic_adjustments(signal, ta)
        total_adjustment == SumSeq(adjustments)
        optimized_confidence ==
            Max2(Pct(10), Min2(Pct(95), base_confidence + total_adjustment))
    IN  DictSet(DictSet(DictSet(DictSet(signal,
            "adjusted_confidence", optimized_confidence),
            "confidence_adjustment", total_adjustment),
            "optimization_type", "basic"),
            "adjustment_reasons", adjustments)

\* len(self.optimization_history) > 1000
HISTORY_CAP == 1000

\* _record_optimization with the record put in front of the list
record_optimization_newest_first(history, original_signal, optimized, optimization_type, now) ==
    LET record == [timestamp |-> now,
                   pair |-> Get(original_signal, "pair", ""),
                   original_confidence |-> Get(original_signal, "confidence", 0),
                   optimized_confidence |-> Get(optimized, "adjusted_confidence", 0),
                   optimization_type |-> optimization_type,
                   confidence_change |-> Get(optimized, "adjusted_confidence", 0)
                                         - Get(original_signal, "confidence", 0)]
        h == <<record>> \o history
    IN  IF Len(h) > HISTORY_CAP
        THEN SubSeq(h, Len(h) - HISTORY_CAP + 1, Len(h))
        ELSE h

\* the history after _record_optimization at the time now
_record_optimization(history, original_signal, optimized, optimization_type, now) ==
    LET record == [timestamp |-> now,
                   pair |-> Get(original_signal, "pair", ""),
                   original_confidence |-> Get(original_signal, "confidence", 0),
                   optimized_confidence |-> Get(optimized, "adjusted_confidence", 0),
                   optimization_type |-> optimization_type,
                   confidence_change |-> Get(optimized, "adjusted_confidence", 0)
                                         - Get(original_signal, "confidence", 0)]
        h == Append(history, record)
    IN  IF Len(h) > HISTORY_CAP
        THEN SubSeq(h, Len(h) - HISTORY_CAP + 1, Len(h))
        ELSE h

\* <<optimized signal, optimization_history afterwards, the caller's signal
\* dict afterwards>>
_optimize_single_signal(enabled, history, signal, reply, ta, now) ==
    IF ~enabled THEN <<_apply_basic_optimization(signal, ta), history, signal>>
    ELSE
    LET ai_optimized == optimize_signal_confidence(enabled, signal, reply)
        ai_ok == "ai_confidence_boost" \in DOMAIN ai_optimized
        \* the connector has mutated `signal` itself: both names are one dict
        optimized == IF ai_ok THEN ai_optimized
                     ELSE _apply_basic_optimization(ai_optimized, ta)
        optimization_type == IF ai_ok THEN "ai_enhanced" ELSE "basic"
    IN  <<optimized,
          _record_optimization(history, ai_optimized, optimized, optimization_type, now),
          ai_optimized>>

\* ------------------------------------------------------------------------
\* Adaptive Calibrator: inputs and the optimisation step
\* ------------------------------------------------------------------------

SignalChoices ==
    {[pair |-> "BTCUSDT", direction |-> d, entry |-> 2000,
      stop_loss |-> calculate_stop_loss(2000, d, "medium"),
      take_profit |-> calculate_take_profit(2000, d, DEFAULT_RR_RATIO,
                                            calculate_stop_loss(2000, d, "medium")),
      confidence |-> c, timestamp |-> 0, timeframe |-> PRIMARY_TIMEFRAME,
      reason |-> <<"Mixed signals">>] :
        d \in {"BUY", "SELL"}, c \in {Pct(5), Pct(50), Pct(80), Pct(93)}}

PairAnalysisChoices ==
    {[primary_trend |-> t, volume_analysis |-> va, momentum |-> mo] :
        t \in {"bullish", "bearish", "neutral"},
        va \in {EmptyDict, [volume_trend |-> "increasing"],
                [volume_trend |-> "decreasing"]},
        mo \in {EmptyDict, [momentum_score |-> Pct(20)], [momentum_score |-> Pct(80)]}}

AdvisorReplies ==
    {[kind |-> "no_response"], [kind |-> "unparsable"],
     [kind |-> "json", empty |-> TRUE, has_boost |-> FALSE, numeric |-> FALSE, boost |-> 0],
     [kind |-> "json", empty |-> FALSE, has_boost |-> FALSE, numeric |-> FALSE, boost |-> 0],
     [kind |-> "json", empty |-> FALSE, has_boost |-> TRUE, numeric |-> FALSE, boost |-> 0]}
    \cup {[kind |-> "json", empty |-> FALSE, has_boost |-> TRUE, numeric |-> TRUE,
           boost |-> b] : b \in {0 - Pct(100), 0 - Pct(10), 0, Pct(10), Pct(100)}}

CalInit ==
    /\ connector_enabled \in BOOLEAN
    /\ signal_in \in SignalChoices
    /\ technical_analysis \in
          {EmptyDict} \cup {[q \in {"BTCUSDT"} |-> pa] : pa \in PairAnalysisChoices}
    /\ advisor_reply \in AdvisorReplies
    /\ optimized_signal = None
    /\ optimization_history = <<>>
    /\ signal_after = EmptyDict
    /\ utcnow = 1

\* DeepSeekOptimizer._optimize_single_signal on signal_in
OptimizeSignal ==
    /\ optimized_signal = None
    /\ LET r == _optimize_single_signal(connector_enabled, optimization_history,
                                        signal_in, advisor_reply, technical_analysis,
                                        utcnow)
       IN  /\ optimized_signal' = Some(r[1])
           /\ optimization_history' = r[2]
           /\ signal_after' = r[3]
    /\ utcnow' = utcnow + 1
    /\ UNCHANGED <<connector_enabled, signal_in, technical_analysis, advisor_reply>>
    /\ UNCHANGED otherThanCal

\* the signals and advisor replies the optimization log is followed under
LogSignals == {sg \in SignalChoices : sg.direction = "BUY" /\ sg.confidence \in {Pct(50), Pct(93)}}

LogReplies ==
    {[kind |-> "no_response"],
     [kind |-> "json", empty |-> FALSE, has_boost |-> TRUE, numeric |-> TRUE,
      boost |-> Pct(10)]}

LogInit ==
    /\ connector_enabled \in BOOLEAN
    /\ signal_in \in LogSignals
    /\ technical_analysis = EmptyDict
    /\ advisor_reply \in LogReplies
    /\ optimized_signal = None
    /\ optimization_history = <<>>
    /\ signal_after = EmptyDict
    /\ utcnow = 1

\* optimize_signals, one signal of its loop: the next signal of the gate,
\* created now, goes through _optimize_single_signal
OptimizeNext ==
    /\ utcnow <= MaxRecords
    /\ signal_in' = [signal_in EXCEPT !.timestamp = utcnow]
    /\ LET r == _optimize_single_signal(connector_enabled, optimization_history,
                                        signal_in', advisor_reply, technical_analysis,
                                        utcnow)
       IN  /\ optimized_signal' = Some(r[1])
           /\ optimization_history' = r[2]
           /\ signal_after' = r[3]
    /\ utcnow' = utcnow + 1
    /\ UNCHANGED <<connector_enabled, technical_analysis, advisor_reply>>
    /\ UNCHANGED otherThanCal

\* ------------------------------------------------------------------------
\* core/market_structure_engine.py, core/pattern_recognition.py: one pair
\* ------------------------------------------------------------------------

\* snapshot of a pair with enough history: _analyze_pair never sets
\* trend_direction, and trend_strength is the 0.7 placeholder
AnalysedSnapshot ==
    [trend_direction |-> "neutral", trend_strength |-> Pct(70),
     key_levels |-> <<[level |-> 8, type |-> "support"],
                      [level |-> 15, type |-> "resistance"]>>,
     liquidity_zones |-> <<[price |-> 15, type |-> "liquidity_pool"],
                           [price |-> 8, type |-> "liquidity_pool"]>>,
     bos_confirmed |-> TRUE, choch_confirmed |-> FALSE,
     volume_analysis |-> [volume_trend |-> "increasing", volume_spike |-> FALSE,
                          delta_positive |-> TRUE],
     momentum |-> [rsi |-> 50, momentum |-> "bearish"],
     price_action |-> [open |-> 1990, high |-> 2010, low |-> 1980, close |-> 2000],
     volatility |-> "medium", primary_tf |-> PRIMARY_TIMEFRAME]

LoopSnapshots == {DefaultSnapshot, AnalysedSnapshot}

LoopPatternData == {[patterns |-> <<>>], [patterns |-> <<[type |-> "FVG", active |-> TRUE]>>]}

\* What the candles fetched for a pair are like:
\*   short      fewer than 10 candles in every timeframe
\*   full       100 or more well-formed candles
\*   flat       100 or more candles, one of them with high = low
\*              (ZeroDivisionError in _detect_order_blocks)
\*   malformed  100 or more candles without the key 'high'
\*              (KeyError in _analyze_timeframe and in the detectors)
DataKinds == {"short", "full", "flat", "malformed"}

\* _analyze_pair(pair, timeframes) raises
analyze_pair_raises(kind) == kind = "malformed"

\* _analyze_pair(pair, timeframes)
_analyze_pair(kind) == IF kind = "short" THEN DefaultSnapshot ELSE AnalysedSnapshot

\* _scan_pair(pair, timeframes) raises
scan_pair_raises(kind) == kind \in {"flat", "malformed"}

\* _scan_pair(pair, timeframes)
_scan_pair(kind) ==
    IF kind = "short" THEN [patterns |-> <<>>]
    ELSE [patterns |-> <<[type |-> "FVG", active |-> TRUE]>>]

\* the loop of analyze with the try inside it replaced by a try around it:
\* the first pair that raises ends the loop
RECURSIVE analyze_stops_at_error(_, _, _)
analyze_stops_at_error(tfd, i, acc) ==
    IF i > Len(PairSeq) THEN acc
    ELSE IF PairSeq[i] \notin DOMAIN tfd THEN analyze_stops_at_error(tfd, i + 1, acc)
    ELSE IF analyze_pair_raises(tfd[PairSeq[i]]) THEN acc
    ELSE analyze_stops_at_error(tfd, i + 1,
                                DictSet(acc, PairSeq[i], _analyze_pair(tfd[PairSeq[i]])))

\* MarketStructureEngine.analyze: for pair, timeframes in tf_data.items(),
\* from pair number i on, structure_analysis so far being acc
RECURSIVE analyze_from(_, _, _)
analyze_from(tfd, i, acc) ==
    IF i > Len(PairSeq) THEN acc
    ELSE IF PairSeq[i] \notin DOMAIN tfd THEN analyze_from(tfd, i + 1, acc)
    ELSE IF analyze_pair_raises(tfd[PairSeq[i]])
         THEN analyze_from(tfd, i + 1, acc)      \* except: continue
    ELSE analyze_from(tfd, i + 1,
                      DictSet(acc, PairSeq[i], _analyze_pair(tfd[PairSeq[i]])))

analyze(tfd) == analyze_from(tfd, 1, EmptyDict)

\* PatternRecognition.scan: the same loop over _scan_pair
RECURSIVE scan_from(_, _, _)
scan_from(tfd, i, acc) ==
    IF i > Len(PairSeq) THEN acc
    ELSE IF PairSeq[i] \notin DOMAIN tfd THEN scan_from(tfd, i + 1, acc)
    ELSE IF scan_pair_raises(tfd[PairSeq[i]])
         THEN scan_from(tfd, i + 1, acc)         \* except: continue
    ELSE scan_from(tfd, i + 1, DictSet(acc, PairSeq[i], _scan_pair(tfd[PairSeq[i]])))

scan(tfd) == scan_from(tfd, 1, EmptyDict)

\* ------------------------------------------------------------------------
\* core/market_structure_engine.py: _analyze_pair over a pair's timeframes
\* ------------------------------------------------------------------------

\* self.required_data_points
required_data_points == 100

\* dict.update: the keys of u overwrite those of d
DictUpdate(d, u) ==
    [k \in DOMAIN d \cup DOMAIN u |-> IF k \in DOMAIN u THEN u[k] ELSE d[k]]

\* the dict _analyze_pair starts from
InitialAnalysis ==
    [trend_direction |-> "neutral", trend_strength |-> 0, key_levels |-> <<>>,
     liquidity_zones |-> <<>>, bos_confirmed |-> FALSE, choch_confirmed |-> FALSE,
     price_action |-> EmptyDict, volume_analysis |-> EmptyDict, momentum |-> EmptyDict,
     volatility |-> "medium", primary_tf |-> PRIMARY_TIMEFRAME]

\* _analyze_timeframe(data).  The candles of a timeframe are kept as their
\* number (len), the moving averages of their closes (ma) and what each
\* indicator function of the engine computes on them.
_analyze_timeframe(tf_candles) ==
    [bos_confirmed |-> tf_candles.bos,
     choch_confirmed |-> tf_candles.choch,
     key_levels |-> tf_candles.key_levels,
     liquidity_zones |-> tf_candles.liquidity_zones,
     price_action |-> tf_candles.price_action,
     volume_analysis |-> tf_candles.volume_analysis,
     momentum |-> tf_candles.momentum]

\* MarketStructureEngine._determine_primary_trend(analysis)
_determine_primary_trend(analysis_dict) ==
    Get(analysis_dict, "trend_direction", "neutral")

\* _calculate_trend_strength(analysis): the placeholder 0.7
_calculate_trend_strength(analysis_dict) == Pct(70)

\* _calculate_volatility(analysis); (high - low) / close against 0.05 and
\* 0.01 (the closes drawn are positive)
_calculate_volatility(analysis_dict) ==
    LET price_data == Get(analysis_dict, "price_action", EmptyDict)
        high == Get(price_data, "high", 0)
        low == Get(price_data, "low", 0)
        close == Get(price_data, "close", 0)
    IN  IF high = 0 THEN "medium"
        ELSE IF (high - low) * 100 > 5 * close THEN "high"
        ELSE IF (high - low) * 100 < close THEN "low"
        ELSE "medium"

\* the loop of _analyze_pair with update replaced by one that keeps the keys
\* the dict already has
RECURSIVE analyze_pair_keeps_existing(_, _, _)
analyze_pair_keeps_existing(tfs, i, analysis_dict) ==
    IF i > Len(tfs) THEN analysis_dict
    ELSE IF tfs[i].len < required_data_points
         THEN analyze_pair_keeps_existing(tfs, i + 1, analysis_dict)
    ELSE analyze_pair_keeps_existing(tfs, i + 1,
                                     DictUpdate(_analyze_timeframe(tfs[i]), analysis_dict))

\* for tf, data in timeframes.items(): from timeframe number i on
RECURSIVE analyze_pair_from(_, _, _)
analyze_pair_from(tfs, i, analysis_dict) ==
    IF i > Len(tfs) THEN analysis_dict
    ELSE IF tfs[i].len < required_data_points
         THEN analyze_pair_from(tfs, i + 1, analysis_dict)       \* continue
    ELSE analyze_pair_from(tfs, i + 1,
                           DictUpdate(analysis_dict, _analyze_timeframe(tfs[i])))

\* _analyze_pair(pair, timeframes) on the timeframes themselves
analyze_pair_timeframes(tfs) ==
    LET a0 == analyze_pair_from(tfs, 1, InitialAnalysis)
        a1 == [a0 EXCEPT !.trend_direction = _determine_primary_trend(a0)]
        a2 == [a1 EXCEPT !.trend_strength = _calculate_trend_strength(a1)]
    IN  [a2 EXCEPT !.volatility = _calculate_volatility(a2)]

\* ------------------------------------------------------------------------
\* Structure Analyzer: inputs and the _analyze_pair step
\* ------------------------------------------------------------------------


\* short, medium and long moving average of the closes
MovingAverages ==
    {[short |-> 110, medium |-> 105, long |-> 100],
     [short |-> 100, medium |-> 105, long |-> 110],
     [short |-> 105, medium |-> 110, long |-> 100]}

\* two sets of indicator readings that differ in every field
IndicatorReadings ==
    {[bos |-> TRUE, choch |-> FALSE,
      key_levels |-> <<[level |-> 1980, type |-> "support"],
                       [level |-> 2010, type |-> "resistance"]>>,
      liquidity_zones |-> <<[price |-> 2010, type |-> "liquidity_pool"],
                            [price |-> 1980, type |-> "liquidity_pool"]>>,
      price_action |-> [open |-> 1990, high |-> 2010, low |-> 1980, close |-> 2000],
      volume_analysis |-> [volume_trend |-> "increasing", volume_spike |-> FALSE,
                           delta_positive |-> TRUE],
      momentum |-> [rsi |-> 60, momentum |-> "bullish"]],
     [bos |-> FALSE, choch |-> TRUE,
      key_levels |-> <<[level |-> 1800, type |-> "support"],
                       [level |-> 2200, type |-> "resistance"]>>,
      liquidity_zones |-> <<[price |-> 2200, type |-> "liquidity_pool"],
                            [price |-> 1800, type |-> "liquidity_pool"]>>,
      price_action |-> [open |-> 2100, high |-> 2200, low |-> 1800, close |-> 1900],
      volume_analysis |-> [volume_trend |-> "decreasing", volume_spike |-> FALSE,
                           delta_positive |-> TRUE],
      momentum |-> [rsi |-> 40, momentum |-> "bearish"]]}

TimeframeCandles ==
    {[len |-> n, ma |-> ma, bos |-> r.bos, choch |-> r.choch,
      key_levels |-> r.key_levels, liquidity_zones |-> r.liquidity_zones,
      price_action |-> r.price_action, volume_analysis |-> r.volume_analysis,
      momentum |-> r.momentum] :
        n \in {0, required_data_points - 1, required_data_points}, ma \in MovingAverages, r \in IndicatorReadings}

StructInit ==
    /\ timeframes \in UNION {[1..n -> TimeframeCandles] : n \in 0..MaxTimeframes}
    /\ snapshot = None

\* MarketStructureEngine._analyze_pair(pair, timeframes)
AnalyzePair ==
    /\ snapshot = None
    /\ snapshot' = Some(analyze_pair_timeframes(timeframes))
    /\ UNCHANGED timeframes
    /\ UNCHANGED otherThanStruct

\* ------------------------------------------------------------------------
\* core/pattern_recognition.py, analytical/ict_engine.py: fair value gaps
\* ------------------------------------------------------------------------
\* A series is a sequence of candles; data[i] / df.iloc[i] of the source is
\* element i + 1 here, and a candle's timestamp is its place in the series.

\* PatternRecognition._detect_fvg, for i in range(1, len(data)-1) from
\* element k on: the event of candle k (current) and k - 1 (prev), if any,
\* then the rest
RECURSIVE detect_fvg_from(_, _, _, _)
detect_fvg_from(d, k, timeframe, now) ==
    IF k > Len(d) - 1 THEN <<>>
    ELSE LET current == d[k]
             prev == d[k - 1]
             event == IF current.low > prev.high \/ current.high < prev.low
                      THEN <<[type |-> "FVG",
                              price_range |-> <<Min2(current.low, prev.low),
                                                Max2(current.high, prev.high)>>,
                              timeframe |-> timeframe,
                              strength |-> "medium",
                              timestamp |-> now,
                              direction |-> IF current.low > prev.high
                                            THEN "bullish" ELSE "bearish",
                              active |-> TRUE]>>
                      ELSE <<>>
         IN  event \o detect_fvg_from(d, k + 1, timeframe, now)

_detect_fvg(d, timeframe, now) == detect_fvg_from(d, 2, timeframe, now)

\* ICTEngine._find_ict_fvg, for i in range(2, len(df)-1) from element k on:
\* the gap of candle k (current), k - 1 (previous) and k + 1 (next_candle),
\* if any, then the rest
RECURSIVE find_ict_fvg_from(_, _)
find_ict_fvg_from(df, k) ==
    IF k > Len(df) - 1 THEN <<>>
    ELSE LET current == df[k]
             previous == df[k - 1]
             next_candle == df[k + 1]
             gap == IF current.low > previous.high
                    THEN IF next_candle.low > previous.high
                         THEN <<[price_range |-> <<previous.high, current.low>>,
                                 type |-> "bullish_fvg", strength |-> "strong",
                                 timestamp |-> current.timestamp, filled |-> FALSE]>>
                         ELSE <<>>
                    ELSE IF current.high < previous.low
                    THEN IF next_candle.high < previous.low
                         THEN <<[price_range |-> <<current.high, previous.low>>,
                                 type |-> "bearish_fvg", strength |-> "strong",
                                 timestamp |-> current.timestamp, filled |-> FALSE]>>
                         ELSE <<>>
                    ELSE <<>>
         IN  gap \o find_ict_fvg_from(df, k + 1)

_find_ict_fvg(df) == find_ict_fvg_from(df, 3)

\* the inner loop of _find_ict_mitigation_blocks: the first candle from
\* element k on whose range meets [fvg_low, fvg_high] gives the block
RECURSIVE mitigation_of(_, _, _)
mitigation_of(df, fvg, k) ==
    LET fvg_low == Min2(fvg.price_range[1], fvg.price_range[2])
        fvg_high == Max2(fvg.price_range[1], fvg.price_range[2])
    IN  IF k > Len(df) THEN <<>>
        ELSE IF df[k].low <= fvg_high /\ df[k].high >= fvg_low
        THEN <<[price_range |-> fvg.price_range, type |-> "fvg_mitigation",
                original_type |-> fvg.type, timestamp |-> df[k].timestamp]>>
        ELSE mitigation_of(df, fvg, k + 1)

\* for fvg in fvgs, from gap number g on
RECURSIVE mitigation_blocks_from(_, _, _)
mitigation_blocks_from(df, fvgs, g) ==
    IF g > Len(fvgs) THEN <<>>
    ELSE mitigation_of(df, fvgs[g], 1) \o mitigation_blocks_from(df, fvgs, g + 1)

\* ICTEngine._find_ict_mitigation_blocks(df)
_find_ict_mitigation_blocks(df) == mitigation_blocks_from(df, _find_ict_fvg(df), 1)

\* ------------------------------------------------------------------------
\* Gap detection: inputs and the detection step
\* ------------------------------------------------------------------------

\* a series of up to MaxCandles candles, each with its timestamp and with
\* its low and high drawn from CandleRanges
FvgInit ==
    LET CandleRanges ==
            {[low |-> 8, high |-> 10], [low |-> 12, high |-> 14],
             [low |-> 13, high |-> 15], [low |-> 9, high |-> 13],
             [low |-> 4, high |-> 6]}
    IN
    /\ candles \in UNION {{[k \in 1..n |-> [low |-> f[k].low, high |-> f[k].high,
                                            timestamp |-> k]] :
                               f \in [1..n -> CandleRanges]} : n \in 0..MaxCandles}
    /\ detected = None

\* the Pattern Scanner's gap detector and the ICT engine's gap and mitigation
\* detectors, each run on the series
DetectGaps ==
    /\ detected = None
    /\ detected' = Some([fvgs |-> _detect_fvg(candles, PRIMARY_TIMEFRAME, utcnow),
                         fair_value_gaps |-> _find_ict_fvg(candles),
                         mitigation_blocks |-> _find_ict_mitigation_blocks(candles)])
    /\ UNCHANGED candles
    /\ UNCHANGED otherThanFvg

\* ------------------------------------------------------------------------
\* core/adaptive_learner.py
\* ------------------------------------------------------------------------

\* _evaluate_signal_performance(signal); signal_id is the pair and the
\* timestamp of the signal
_evaluate_signal_performance(signal) ==
    [signal_id |-> <<signal.pair, signal.timestamp>>,
     pair |-> signal.pair,
     direction |-> signal.direction,
     confidence |-> signal.confidence,
     timestamp |-> signal.timestamp,
     estimated_performance |-> Pct(80)]

\* the entries the loop of update appends for signals[i..]: a signal without
\* one of the keys read raises KeyError, which ends the loop
RECURSIVE performances_from(_, _)
performances_from(sigs, i) ==
    IF i > Len(sigs) THEN <<>>
    ELSE IF ~({"pair", "timestamp", "direction", "confidence"} \subseteq DOMAIN sigs[i])
         THEN <<>>
    ELSE <<_evaluate_signal_performance(sigs[i])>> \o performances_from(sigs, i + 1)

\* performance_data after AdaptiveLearner.update(signals)
update(perf, sigs) == perf \o performances_from(sigs, 1)

\* deepseek/deepseek_memory.py: len(signal_outcomes[pair]) > 500, the
\* smallest retention cap a history store of the program applies
\* (LearningMemory applies 10000; AdaptiveLearner has no such statement)
SIGNAL_OUTCOMES_CAP == 500

\* config/pairs.py
TOP_25_PAIRS ==
    <<"BTCUSDT", "ETHUSDT", "BNBUSDT", "SOLUSDT", "XRPUSDT",
      "ADAUSDT", "DOGEUSDT", "AVAXUSDT", "DOTUSDT", "LINKUSDT",
      "MATICUSDT", "LTCUSDT", "UNIUSDT", "ATOMUSDT", "XLMUSDT",
      "ETCUSDT", "FILUSDT", "APTUSDT", "NEARUSDT", "ALGOUSDT",
      "ARBUSDT", "VETUSDT", "AAVEUSDT", "EOSUSDT", "XMRUSDT">>

\* the signals of a cycle at time now in which every pair has a BUY signal
\* (the fields the learner reads)
CycleSignals(now) ==
    [i \in 1..Len(TOP_25_PAIRS) |->
        [pair |-> TOP_25_PAIRS[i], direction |-> "BUY", confidence |-> Pct(90),
         timestamp |-> now]]

\* brain.update_learning_memory(signals) at the end of a cycle with signals
LearnerCycle ==
    /\ Len(performance_data) < MaxStore
    /\ cycle_count' = cycle_count + 1
    /\ signals' = CycleSignals(cycle_count')
    /\ performance_data' = update(performance_data, signals')
    /\ UNCHANGED <<pc, is_running, consecutive_errors, market_data, tf_data, work,
                   analysis_result, analysis_results, steps, sink, last_log, made_in>>
    /\ UNCHANGED errVars
    /\ UNCHANGED otherThanLoop

\* adaptive_learner.update called once more with the signals of the cycle
LearnerUpdateAgain ==
    /\ signals # <<>>
    /\ Len(performance_data) < MaxReplayLen
    /\ performance_data' = update(performance_data, signals)
    /\ UNCHANGED <<pc, is_running, cycle_count, consecutive_errors, market_data,
                   tf_data, work, analysis_result, analysis_results, signals, steps,
                   sink, last_log, made_in>>
    /\ UNCHANGED errVars
    /\ UNCHANGED otherThanLoop

\* ------------------------------------------------------------------------
\* 2main.py: DokyOS.runtime_loop, with core/brain_controller.py
\* ------------------------------------------------------------------------

\* the positions inside brain.analyze_market (under wait_for(..., 60.0))
AnalysisSteps == {"sync", "structure", "patterns", "probability", "aggr", "learning"}

\* no part of a result has been produced
NotMade == [structure |-> 0, patterns |-> 0, probability |-> 0]

LoopInit ==
    /\ pc = "loop_top"
    /\ is_running = TRUE
    /\ cycle_count = 0
    /\ consecutive_errors = 0
    /\ market_data = None
    /\ tf_data = EmptyDict
    /\ work = EmptyDict
    /\ analysis_result = None
    /\ analysis_results = EmptyDict
    /\ signals = <<>>
    /\ steps = <<>>
    /\ sink = <<>>
    /\ last_log = "started"
    /\ performance_data = <<>>
    /\ made_in = [work |-> NotMade, result |-> NotMade, brain |-> NotMade]
    /\ error_streak = 0
    /\ last_error_cycle = 0
    /\ backoff_time = 0

\* signal_handler: SIGINT / SIGTERM
SignalHandler ==
    /\ is_running
    /\ pc # "exited"
    /\ is_running' = FALSE
    /\ UNCHANGED <<pc, cycle_count, consecutive_errors, market_data, tf_data, work,
                   analysis_result, analysis_results, signals, steps, sink,
                   last_log, performance_data, made_in>>
    /\ UNCHANGED errVars
    /\ UNCHANGED otherThanLoop

\* while self.is_running: ... cycle_count += 1; consecutive_errors = 0
LoopTop ==
    /\ pc = "loop_top"
    /\ IF ~is_running
       THEN /\ pc' = "exited"
            /\ UNCHANGED <<cycle_count, consecutive_errors, steps, last_log>>
       ELSE /\ cycle_count < MaxCycles
            /\ cycle_count' = cycle_count + 1
            /\ consecutive_errors' = 0
            /\ steps' = <<>>
            /\ last_log' = "Runtime Cycle"
            /\ pc' = "health"
    /\ UNCHANGED <<is_running, market_data, tf_data, work, analysis_result,
                   analysis_results, signals, sink, made_in>>
    /\ UNCHANGED performance_data
    /\ UNCHANGED errVars
    /\ UNCHANGED otherThanLoop

\* 1. _system_health_check; a failed check sleeps and continues
HealthCheck ==
    /\ pc = "health"
    /\ \E healthy \in BOOLEAN :
          /\ pc' = IF healthy THEN "fetch" ELSE "loop_top"
          /\ last_log' = IF healthy THEN last_log
                         ELSE "System health check failed, skipping cycle"
    /\ UNCHANGED <<is_running, cycle_count, consecutive_errors, market_data, tf_data,
                   work, analysis_result, analysis_results, signals, steps, sink,
                   made_in>>
    /\ UNCHANGED performance_data
    /\ UNCHANGED errVars
    /\ UNCHANGED otherThanLoop

\* 2. wait_for(brain.fetch_market_data(), 30.0): None (exchange error), {} or
\*    the candles of the pairs fetched; `if not market_data` sleeps and continues
FetchMarketData ==
    /\ pc = "fetch"
    /\ \E md \in {None} \cup {Some(f) : f \in PartialMaps(Pairs, DataKinds)} :
          /\ market_data' = md
          /\ IF md = None \/ IsEmptyDict(md[1])
             THEN /\ pc' = "loop_top"
                  /\ last_log' = "No market data, skipping analysis"
             ELSE /\ pc' = "sync"
                  /\ last_log' = last_log
    /\ steps' = Append(steps, "fetch")
    /\ UNCHANGED <<is_running, cycle_count, consecutive_errors, tf_data, work,
                   analysis_result, analysis_results, signals, sink, made_in>>
    /\ UNCHANGED performance_data
    /\ UNCHANGED errVars
    /\ UNCHANGED otherThanLoop

\* the fetch timeout with the TimeoutError left to end runtime_loop
FetchTimeout_uncaught ==
    /\ pc = "fetch"
    /\ consecutive_errors' = consecutive_errors + 1
    /\ last_log' = "Cycle timeout"
    /\ pc' = "exited"
    /\ UNCHANGED <<is_running, cycle_count, market_data, tf_data, work,
                   analysis_result, analysis_results, signals, steps, sink, made_in>>
    /\ UNCHANGED performance_data
    /\ UNCHANGED errVars
    /\ UNCHANGED otherThanLoop

\* the fetch exceeds its 30 s: except asyncio.TimeoutError:
\* consecutive_errors += 1; _handle_timeout(consecutive_errors) sleeps
\* min(consecutive_errors * 10, 60) seconds
FetchTimeout ==
    /\ pc = "fetch"
    /\ consecutive_errors' = consecutive_errors + 1
    /\ backoff_time' = Min2((consecutive_errors + 1) * 10, 60)
    /\ last_log' = "Cycle timeout"
    /\ pc' = "loop_top"
    /\ UNCHANGED <<is_running, cycle_count, market_data, tf_data, work,
                   analysis_result, analysis_results, signals, steps, sink, made_in>>
    /\ UNCHANGED performance_data
    /\ UNCHANGED <<error_streak, last_error_cycle>>
    /\ UNCHANGED otherThanLoop

\* max_consecutive_errors of runtime_loop
max_consecutive_errors == 5

\* an exception other than TimeoutError is raised in the try body:
\* except Exception: consecutive_errors += 1; _handle_runtime_error, which
\* from max_consecutive_errors on runs emergency_shutdown (is_running =
\* False) and below it sleeps min(consecutive_errors * 5, 30) seconds; it
\* is raised at a position of runtime_loop's try body (the steps of
\* analyze_market run inside _safe_analyze_market, which lets no exception out)
RuntimeError ==
    /\ pc \in {"health", "fetch", "generate", "notify", "update_learning", "watchdog",
              "cycle_done"}
    /\ consecutive_errors' = consecutive_errors + 1
    /\ IF consecutive_errors + 1 >= max_consecutive_errors
       THEN /\ is_running' = FALSE
            /\ backoff_time' = backoff_time
            /\ last_log' = "EMERGENCY SHUTDOWN INITIATED"
       ELSE /\ is_running' = is_running
            /\ backoff_time' = Min2((consecutive_errors + 1) * 5, 30)
            /\ last_log' = "Runtime error"
    /\ error_streak' = IF last_error_cycle > 0 /\ last_error_cycle = cycle_count - 1
                       THEN error_streak + 1
                       ELSE 1
    /\ last_error_cycle' = cycle_count
    /\ pc' = "loop_top"
    /\ UNCHANGED <<cycle_count, market_data, tf_data, work, analysis_result,
                   analysis_results, signals, steps, sink, performance_data, made_in>>
    /\ UNCHANGED otherThanLoop

\* analyze_market 1: analysis = {}; multi_tf_sync.synchronize(market_data)
Synchronize ==
    /\ pc = "sync"
    /\ tf_data' = market_data[1]
    /\ work' = EmptyDict
    /\ made_in' = [made_in EXCEPT !.work = NotMade]
    /\ steps' = Append(steps, "synchronize")
    /\ pc' = "structure"
    /\ UNCHANGED <<is_running, cycle_count, consecutive_errors, market_data,
                   analysis_result, analysis_results, signals, sink, last_log>>
    /\ UNCHANGED performance_data
    /\ UNCHANGED errVars
    /\ UNCHANGED otherThanLoop

\* analyze_market 2: market_structure.analyze(tf_data)
StructureStep ==
    /\ pc = "structure"
    /\ work' = DictSet(work, "structure", analyze(tf_data))
    /\ made_in' = [made_in EXCEPT !.work.structure = cycle_count]
    /\ steps' = Append(steps, "structure")
    /\ pc' = "patterns"
    /\ UNCHANGED <<is_running, cycle_count, consecutive_errors, market_data, tf_data,
                   analysis_result, analysis_results, signals, sink, last_log>>
    /\ UNCHANGED performance_data
    /\ UNCHANGED errVars
    /\ UNCHANGED otherThanLoop

\* analyze_market 3: pattern_recognition.scan(tf_data)
PatternStep ==
    /\ pc = "patterns"
    /\ work' = DictSet(work, "patterns", scan(tf_data))
    /\ made_in' = [made_in EXCEPT !.work.patterns = cycle_count]
    /\ steps' = Append(steps, "patterns")
    /\ pc' = "probability"
    /\ UNCHANGED <<is_running, cycle_count, consecutive_errors, market_data, tf_data,
                   analysis_result, analysis_results, signals, sink, last_log>>
    /\ UNCHANGED performance_data
    /\ UNCHANGED errVars
    /\ UNCHANGED otherThanLoop

\* analyze_market 4: probability_engine.calculate(structure, patterns)
ProbabilityStep ==
    /\ pc = "probability"
    /\ work' = DictSet(work, "probability",
                       calculate(work["structure"], work["patterns"]))
    /\ made_in' = [made_in EXCEPT !.work.probability = cycle_count]
    /\ steps' = Append(steps, "probability")
    /\ pc' = "aggr"
    /\ UNCHANGED <<is_running, cycle_count, consecutive_errors, market_data, tf_data,
                   analysis_result, analysis_results, signals, sink, last_log>>
    /\ UNCHANGED performance_data
    /\ UNCHANGED errVars
    /\ UNCHANGED otherThanLoop

\* analyze_market 5: aggr enhancement (without aggr data the pair's
\* technical analysis is returned as it is)
AggrStep ==
    /\ pc = "aggr"
    /\ work' = DictSet(work, "aggr_enhanced",
                       [q \in DOMAIN market_data[1] |->
                           Get(work["structure"], q, EmptyDict)])
    /\ pc' = "learning"
    /\ UNCHANGED <<is_running, cycle_count, consecutive_errors, market_data, tf_data,
                   analysis_result, analysis_results, signals, steps, sink,
                   last_log, performance_data, made_in>>
    /\ UNCHANGED errVars
    /\ UNCHANGED otherThanLoop

\* analyze_market 6: adaptive_learner.analyze(analysis);
\* self.analysis_results = analysis; return analysis (the locals tf_data and
\* analysis end with the call)
LearningStep ==
    /\ pc = "learning"
    /\ LET analysis_dict == DictSet(work, "learning", [features_used |-> 5])
       IN  /\ analysis_results' = analysis_dict
           /\ analysis_result' = Some(analysis_dict)
    /\ made_in' = [work |-> NotMade, result |-> made_in.work, brain |-> made_in.work]
    /\ tf_data' = EmptyDict
    /\ work' = EmptyDict
    /\ pc' = "generate"
    /\ UNCHANGED <<is_running, cycle_count, consecutive_errors, market_data,
                   signals, steps, sink, last_log>>
    /\ UNCHANGED performance_data
    /\ UNCHANGED errVars
    /\ UNCHANGED otherThanLoop

\* the analysis timeout with the loop going on to generate_signals on what
\* brain.analysis_results holds
AnalysisTimeout_uses_last_results ==
    /\ pc \in AnalysisSteps
    /\ analysis_result' = Some(analysis_results)
    /\ made_in' = [made_in EXCEPT !.work = NotMade, !.result = made_in.brain]
    /\ tf_data' = EmptyDict
    /\ work' = EmptyDict
    /\ last_log' = "Market analysis timeout"
    /\ pc' = IF IsEmptyDict(analysis_results) THEN "loop_top" ELSE "generate"
    /\ UNCHANGED <<is_running, cycle_count, consecutive_errors, market_data,
                   analysis_results, signals, steps, sink>>
    /\ UNCHANGED performance_data
    /\ UNCHANGED errVars
    /\ UNCHANGED otherThanLoop

\* _safe_analyze_market: the analysis exceeds its 60 s at one of its awaits;
\* the result is None and `if not analysis_result: continue`
AnalysisTimeout ==
    /\ pc \in AnalysisSteps
    /\ analysis_result' = None
    /\ made_in' = [made_in EXCEPT !.work = NotMade, !.result = NotMade]
    /\ tf_data' = EmptyDict
    /\ work' = EmptyDict
    /\ last_log' = "Market analysis timeout"
    /\ pc' = "loop_top"
    /\ UNCHANGED <<is_running, cycle_count, consecutive_errors, market_data,
                   analysis_results, signals, steps, sink>>
    /\ UNCHANGED performance_data
    /\ UNCHANGED errVars
    /\ UNCHANGED otherThanLoop

\* 4. brain.generate_signals(analysis_result)
GenerateSignals ==
    /\ pc = "generate"
    /\ signals' = generate(settings, analysis_result, utcnow)
    /\ steps' = Append(steps, "decide")
    /\ pc' = "notify"
    /\ UNCHANGED <<is_running, cycle_count, consecutive_errors, market_data, tf_data,
                   work, analysis_result, analysis_results, sink, last_log,
                   performance_data, made_in>>
    /\ UNCHANGED errVars
    /\ UNCHANGED otherThanLoop

\* 5. if signals: _send_controlled_notifications(signals)
SendNotifications ==
    /\ pc = "notify"
    /\ IF signals # <<>>
       THEN /\ sink' = sink \o signals
            /\ steps' = Append(steps, "handoff")
       ELSE UNCHANGED <<sink, steps>>
    /\ pc' = "update_learning"
    /\ UNCHANGED <<is_running, cycle_count, consecutive_errors, market_data, tf_data,
                   work, analysis_result, analysis_results, signals, last_log, made_in>>
    /\ UNCHANGED performance_data
    /\ UNCHANGED errVars
    /\ UNCHANGED otherThanLoop

\* 6. brain.update_learning_memory(signals)
UpdateLearningMemory ==
    /\ pc = "update_learning"
    /\ performance_data' = IF signals # <<>> THEN update(performance_data, signals)
                           ELSE performance_data
    /\ pc' = "watchdog"
    /\ UNCHANGED <<is_running, cycle_count, consecutive_errors, market_data, tf_data,
                   work, analysis_result, analysis_results, signals, steps, sink,
                   last_log, made_in>>
    /\ UNCHANGED errVars
    /\ UNCHANGED otherThanLoop

\* 7. watchdog.monitor_system(); the cycle is complete
WatchdogCheck ==
    /\ pc = "watchdog"
    /\ pc' = "cycle_done"
    /\ last_log' = "Cycle completed"
    /\ UNCHANGED <<is_running, cycle_count, consecutive_errors, market_data, tf_data,
                   work, analysis_result, analysis_results, signals, steps, sink,
                   made_in>>
    /\ UNCHANGED performance_data
    /\ UNCHANGED errVars
    /\ UNCHANGED otherThanLoop

\* the adaptive sleep that ends a completed cycle
CycleSleep ==
    /\ pc = "cycle_done"
    /\ pc' = "loop_top"
    /\ UNCHANGED <<is_running, cycle_count, consecutive_errors, market_data, tf_data,
                   work, analysis_result, analysis_results, signals, steps, sink,
                   last_log, performance_data, made_in>>
    /\ UNCHANGED errVars
    /\ UNCHANGED otherThanLoop

\* ------------------------------------------------------------------------
\* 2main.py: main() and DokyOS.startup, with BrainController.initialize
\* ------------------------------------------------------------------------

\* the components BrainController.initialize awaits, in its order
BrainComponents ==
    <<"market_data", "binance", "okx", "decision_maker", "probability_engine",
      "market_structure", "pattern_recognition", "adaptive_learner", "multi_tf_sync",
      "smc_engine", "ict_engine", "supply_demand", "volume_analyzer", "price_action",
      "trend_engine", "historical_pattern",
      "deepseek_connector", "deepseek_reasoner", "deepseek_optimizer", "deepseek_memory",
      "historical_data", "signal_logger", "learning_memory", "performance_report",
      "telegram", "github_sync", "dns_guard", "time_sync",
      "aggr_loader", "aggr_analyzer",
      "watchdog", "recovery", "encryption">>

\* what BrainController.initialize returns when no component raises: the
\* method ends after its last logging call, without a return statement
brain_initialize_returns == None

\* Python's truth value of None / a bool
Truthy(v) == v # None /\ v[1]

\* main() has built DokyOS and calls startup(), which awaits brain.initialize()
BootInit ==
    boot = [pc |-> "brain_initialize", initialised |-> 0, raised_in |-> None,
            startup |-> None, entered_loop |-> FALSE]

\* BrainController.initialize: the next `await component.initialize()`, which
\* returns or raises; `except Exception: ... raise` hands the exception on to
\* startup
InitializeComponent ==
    /\ boot.pc = "brain_initialize"
    /\ boot.initialised < Len(BrainComponents)
    /\ \E raises \in BOOLEAN :
          boot' = IF raises
                  THEN [boot EXCEPT !.pc = "startup_except",
                                    !.raised_in = Some(BrainComponents[boot.initialised + 1])]
                  ELSE [boot EXCEPT !.initialised = boot.initialised + 1]
    /\ UNCHANGED loopVars
    /\ UNCHANGED otherThanBoot

\* startup from the return of brain.initialize on:
\* `if not await self.brain.initialize(): return False`, then the telegram
\* and watchdog initialisation (a falsy result only logs a warning), the
\* start-up message and `return True`
StartupAfterBrain ==
    /\ boot.pc = "brain_initialize"
    /\ boot.initialised = Len(BrainComponents)
    /\ boot' = [boot EXCEPT !.pc = "main_branch",
                            !.startup = IF ~Truthy(brain_initialize_returns)
                                        THEN Some(FALSE)
                                        ELSE Some(TRUE)]
    /\ UNCHANGED loopVars
    /\ UNCHANGED otherThanBoot

\* startup: except Exception: log "Startup sequence failed"; return False
StartupExcept ==
    /\ boot.pc = "startup_except"
    /\ boot' = [boot EXCEPT !.pc = "main_branch", !.startup = Some(FALSE)]
    /\ UNCHANGED loopVars
    /\ UNCHANGED otherThanBoot

\* main: `if await dokyos.startup(): await dokyos.runtime_loop()`, else log
\* "Startup failed, shutting down"; finally: shutdown()
Main ==
    /\ boot.pc = "main_branch"
    /\ boot' = IF Truthy(boot.startup)
               THEN [boot EXCEPT !.pc = "runtime_loop", !.entered_loop = TRUE]
               ELSE [boot EXCEPT !.pc = "shutdown"]
    /\ UNCHANGED loopVars
    /\ UNCHANGED otherThanBoot

\* DokyOS.shutdown, after which main returns
Shutdown ==
    /\ boot.pc = "shutdown"
    /\ boot' = [boot EXCEPT !.pc = "finished"]
    /\ UNCHANGED loopVars
    /\ UNCHANGED otherThanBoot

\* ------------------------------------------------------------------------
\* Specifications
\* ------------------------------------------------------------------------

IdleGate ==
    /\ settings = Settings
    /\ account = [current_drawdown |-> 0, daily_loss |-> 0]
    /\ analysis = None
    /\ decisions = None

IdleProb ==
    /\ structure_analysis = EmptyDict
    /\ pattern_analysis = EmptyDict
    /\ probabilities = None

IdleRes ==
    /\ data = <<>>
    /\ target_tf = PRIMARY_TIMEFRAME
    /\ resampled = None
    /\ reresampled = None

IdleCal ==
    /\ connector_enabled = FALSE
    /\ signal_in = EmptyDict
    /\ technical_analysis = EmptyDict
    /\ advisor_reply = [kind |-> "no_response"]
    /\ optimized_signal = None
    /\ optimization_history = <<>>
    /\ signal_after = EmptyDict
    /\ utcnow = 1

IdleStruct ==
    /\ timeframes = <<>>
    /\ snapshot = None

IdleFvg ==
    /\ candles = <<>>
    /\ detected = None

\* main() has entered runtime_loop
IdleBoot ==
    boot = [pc |-> "runtime_loop", initialised |-> Len(BrainComponents),
            raised_in |-> None, startup |-> Some(TRUE), entered_loop |-> TRUE]

\* the runtime loop, under any recognised minimum-confidence setting
Init ==
    /\ LoopInit
    /\ settings \in SettingsChoices
    /\ account = [current_drawdown |-> 0, daily_loss |-> 0]
    /\ analysis = None
    /\ decisions = None
    /\ IdleProb
    /\ IdleRes
    /\ IdleCal
    /\ IdleStruct
    /\ IdleFvg
    /\ IdleBoot

Next ==
    \/ SignalHandler
    \/ LoopTop
    \/ HealthCheck
    \/ FetchMarketData
    \/ FetchTimeout
    \/ RuntimeError
    \/ Synchronize
    \/ StructureStep
    \/ PatternStep
    \/ ProbabilityStep
    \/ AggrStep
    \/ LearningStep
    \/ AnalysisTimeout
    \/ GenerateSignals
    \/ SendNotifications
    \/ UpdateLearningMemory
    \/ WatchdogCheck
    \/ CycleSleep

Spec == Init /\ [][Next]_vars

\* the Decision Gate on any analysis
InitGate ==
    /\ GateInit
    /\ IdleProb
    /\ IdleRes
    /\ IdleCal
    /\ LoopInit
    /\ IdleStruct
    /\ IdleFvg
    /\ IdleBoot

NextGate == GateGenerate

SpecGate == InitGate /\ [][NextGate]_vars

\* the Probability Aggregator on any snapshot and pattern list
InitProb ==
    /\ IdleGate
    /\ ProbInit
    /\ IdleRes
    /\ IdleCal
    /\ LoopInit
    /\ IdleStruct
    /\ IdleFvg
    /\ IdleBoot

NextProb ==
    \/ Calculate
    \/ DecideOnResult

SpecProb == InitProb /\ [][NextProb]_vars

\* the Resampler on any base candle sequence
InitRes ==
    /\ IdleGate
    /\ IdleProb
    /\ ResInit
    /\ IdleCal
    /\ LoopInit
    /\ IdleStruct
    /\ IdleFvg
    /\ IdleBoot

NextRes ==
    \/ AppendCandle
    \/ Resample
    \/ ReResample

SpecRes == InitRes /\ [][NextRes]_vars

\* the Adaptive Calibrator on any signal and advisor reply
InitCal ==
    /\ IdleGate
    /\ IdleProb
    /\ IdleRes
    /\ CalInit
    /\ LoopInit
    /\ IdleStruct
    /\ IdleFvg
    /\ IdleBoot

NextCal == OptimizeSignal

SpecCal == InitCal /\ [][NextCal]_vars

\* the optimization log over a long run of signals
InitLog ==
    /\ IdleGate
    /\ IdleProb
    /\ IdleRes
    /\ LogInit
    /\ LoopInit
    /\ IdleStruct
    /\ IdleFvg
    /\ IdleBoot

NextLog == OptimizeNext

SpecLog == InitLog /\ [][NextLog]_vars

\* the learner's store over cycles that yield signals
InitLearner ==
    /\ IdleGate
    /\ IdleProb
    /\ IdleRes
    /\ IdleCal
    /\ LoopInit
    /\ IdleStruct
    /\ IdleFvg
    /\ IdleBoot

NextLearner ==
    \/ LearnerCycle
    \/ LearnerUpdateAgain

SpecLearner == InitLearner /\ [][NextLearner]_vars

\* the Structure Analyzer on the timeframes of one pair
InitStruct ==
    /\ IdleGate
    /\ IdleProb
    /\ IdleRes
    /\ IdleCal
    /\ LoopInit
    /\ StructInit
    /\ IdleFvg
    /\ IdleBoot

NextStruct == AnalyzePair

SpecStruct == InitStruct /\ [][NextStruct]_vars

\* the gap detectors on one candle series
InitFvg ==
    /\ IdleGate
    /\ IdleProb
    /\ IdleRes
    /\ IdleCal
    /\ LoopInit
    /\ IdleStruct
    /\ FvgInit
    /\ IdleBoot

NextFvg == DetectGaps

SpecFvg == InitFvg /\ [][NextFvg]_vars

\* main() from the call of startup() to the end of the program or the entry
\* into runtime_loop
InitStart ==
    /\ IdleGate
    /\ IdleProb
    /\ IdleRes
    /\ IdleCal
    /\ LoopInit
    /\ IdleStruct
    /\ IdleFvg
    /\ BootInit

NextStart ==
    \/ InitializeComponent
    \/ StartupAfterBrain
    \/ StartupExcept
    \/ Main
    \/ Shutdown
    \/ SignalHandler

SpecStart == InitStart /\ [][NextStart]_vars

\* ------------------------------------------------------------------------
\* Properties of the Decision Gate (SpecGate)
\* ------------------------------------------------------------------------

\* the signals of the generate result that are for the pair
SignalsFor(p) == {i \in 1..Len(decisions[1]) : decisions[1][i].pair = p}

GatePairs == IF analysis = None THEN {} ELSE DOMAIN analysis[1].probability

BuyCondition(pd) ==
    /\ pd.buy_probability >= settings.MIN_CONFIDENCE
    /\ pd.buy_probability > pd.sell_probability

SellCondition(pd) ==
    /\ pd.sell_probability >= settings.MIN_CONFIDENCE
    /\ pd.sell_probability > pd.buy_probability

Abs(x) == IF x < 0 THEN 0 - x ELSE x

C4_Monotonicity ==
    decisions # None =>
        \A p \in GatePairs : \A m2 \in MinConfidences :
            (m2 > settings.MIN_CONFIDENCE /\ SignalsFor(p) = {})
            => _evaluate_pair([settings EXCEPT !.MIN_CONFIDENCE = m2],
                              p, analysis[1], utcnow) = None

\* the case of C4: a pair without a signal at the configured threshold that
\* has one at a lower threshold, with a higher threshold left to compare
C4_Witness ==
    /\ decisions # None
    /\ \E p \in GatePairs : \E m1, m2 \in MinConfidences :
          /\ m1 < settings.MIN_CONFIDENCE
          /\ settings.MIN_CONFIDENCE < m2
          /\ SignalsFor(p) = {}
          /\ _evaluate_pair([settings EXCEPT !.MIN_CONFIDENCE = m1],
                            p, analysis[1], utcnow) # None

\* ------------------------------------------------------------------------
\* Properties of the Probability Aggregator (SpecProb)
\* ------------------------------------------------------------------------

InUnitInterval(x) == 0 <= x /\ x <= Pct(100)

\* C5: for every pair that calculate gives a result for, confidence,
\* buy_probability and sell_probability each lie in [0, 1].
C5_ProbabilityBounds ==
    probabilities # None =>
        \A p \in DOMAIN probabilities[1] :
            /\ InUnitInterval(probabilities[1][p].confidence)
            /\ InUnitInterval(probabilities[1][p].buy_probability)
            /\ InUnitInterval(probabilities[1][p].sell_probability)

\* the case of C5: a pair whose four sub-scores are all high
C5_Witness ==
    /\ probabilities # None
    /\ \E p \in DOMAIN probabilities[1] :
          /\ probabilities[1][p].confidence > Pct(75)
          /\ probabilities[1][p].buy_probability = Pct(70)
          /\ _structure_probability(structure_analysis[p]) > Pct(80)
          /\ p \in DOMAIN pattern_analysis

\* the split that goes with a trend direction
SplitOf ==
    [bullish |-> <<Pct(70), Pct(30)>>, bearish |-> <<Pct(30), Pct(70)>>,
     neutral |-> <<Pct(50), Pct(50)>>]

\* C22: the directional split of a pair's result is fixed by the trend
\* direction of its snapshot alone: bullish gives (0.7, 0.3), bearish
\* (0.3, 0.7), neutral (0.5, 0.5), whatever the confidence, the sub-scores
\* and the pattern data are.
C22_DirectionalSplit ==
    probabilities # None =>
        \A p \in DOMAIN probabilities[1] :
            <<probabilities[1][p].buy_probability, probabilities[1][p].sell_probability>>
                = SplitOf[structure_analysis[p].trend_direction]

\* two pairs of one result with the same trend and different confidence, one
\* of them with pattern events, and a bearish pair with pattern events
C22_Witness ==
    /\ probabilities # None
    /\ \/ \E p, q \in DOMAIN probabilities[1] :
             /\ structure_analysis[p].trend_direction = structure_analysis[q].trend_direction
             /\ probabilities[1][p].confidence > probabilities[1][q].confidence
             /\ Get(Get(pattern_analysis, p, EmptyDict), "patterns", <<>>) # <<>>
       \/ \E p \in DOMAIN probabilities[1] :
             /\ structure_analysis[p].trend_direction = "bearish"
             /\ Get(Get(pattern_analysis, p, EmptyDict), "patterns", <<>>) # <<>>
             /\ probabilities[1][p].sell_probability = Pct(70)

\* the weight of one event: strong order block 0.8, active gap 0.7,
\* confirmed structure shift 0.75, any other event 0
EventWeight(e) ==
    IF e["type"] = "OB" /\ Get(e, "strength", "") = "strong" THEN Pct(80)
    ELSE IF e["type"] = "FVG" /\ Get(e, "active", FALSE) THEN Pct(70)
    ELSE IF e["type"] = "MSS" /\ Get(e, "confirmed", FALSE) THEN Pct(75)
    ELSE 0

\* min(1.0, sum of weights / event count), 0.5 without pattern data
PatternSubScore(pd) ==
    LET events == Get(pd, "patterns", <<>>)
    IN  IF events = <<>> THEN Pct(50)
        ELSE Min2(Pct(100),
                  SumSeq([i \in 1..Len(events) |-> EventWeight(events[i])]) \div Len(events))

\* C23: the pattern sub-score that enters a pair's confidence is min(1.0,
\* sum of the event weights / event count), and the 0.5 default when the
\* pair has no scan result or no detected events.
C23_PatternSubScore ==
    probabilities # None =>
        \A p \in DOMAIN probabilities[1] :
            probabilities[1][p].confidence =
                (_structure_probability(structure_analysis[p]) * weights.structure_based
                 + PatternSubScore(Get(pattern_analysis, p, EmptyDict)) * weights.pattern_based
                 + _volume_probability(structure_analysis[p]) * weights.volume_based
                 + _momentum_probability(structure_analysis[p]) * weights.momentum_based)
                \div 100

\* C27: under the default configuration no result of the aggregator has a
\* buy or sell probability above 0.7, the gate's direction for every one of
\* them is WAIT, and DecisionMaker.generate returns the empty list.
C27_DefaultConfigWaits ==
    /\ settings.MIN_CONFIDENCE = MIN_CONFIDENCE
    /\ probabilities # None =>
          \A p \in DOMAIN probabilities[1] :
              /\ probabilities[1][p].buy_probability <= Pct(70)
              /\ probabilities[1][p].sell_probability <= Pct(70)
              /\ _determine_direction(settings, probabilities[1][p],
                                      structure_analysis[p]) = "WAIT"
    /\ decisions # None => decisions[1] = <<>>

\* the gate has run on the result of a bullish pair of high confidence
C27_Witness ==
    /\ probabilities # None
    /\ decisions # None
    /\ \E p \in DOMAIN probabilities[1] :
          /\ probabilities[1][p].buy_probability = Pct(70)
          /\ probabilities[1][p].confidence >= Pct(75)

\* ------------------------------------------------------------------------
\* Properties of the Adaptive Calibrator (SpecCal)
\* ------------------------------------------------------------------------

\* C6: after calibration, on the local path or the advisor path, the signal's
\* adjusted_confidence lies within [0.10, 0.95].
C6_CalibratorClamp ==
    optimized_signal # None =>
        /\ "adjusted_confidence" \in DOMAIN optimized_signal[1]
        /\ Pct(10) <= optimized_signal[1]["adjusted_confidence"]
        /\ optimized_signal[1]["adjusted_confidence"] <= Pct(95)

\* two dicts with the same keys and the same values
SameDict(a, b) ==
    /\ DOMAIN a = DOMAIN b
    /\ \A k \in DOMAIN a : a[k] = b[k]

\* the advisor answered with JSON holding a numeric confidence_boost
WellFormed(reply) ==
    /\ reply.kind = "json"
    /\ ~reply.empty
    /\ reply.has_boost
    /\ reply.numeric

\* C14: unless the advisor is enabled and its response is well-formed, the
\* calibration of a signal completes with exactly the local heuristic's
\* result; a well-formed response is the only case in which the result
\* carries the advisor's confidence delta.
C14_AdvisorFallback ==
    optimized_signal # None =>
        IF connector_enabled /\ WellFormed(advisor_reply)
        THEN optimized_signal[1]["ai_confidence_boost"] = advisor_reply.boost
        ELSE SameDict(optimized_signal[1],
                      _apply_basic_optimization(signal_in, technical_analysis))

\* C15: a calibration attempt on a signal, whichever strategy handled it,
\* appends exactly one record to the optimization log, holding the time, the
\* signal's original confidence, its adjusted confidence and the mechanism.
C15_OneRecordPerAttempt ==
    optimized_signal # None =>
        /\ Len(optimization_history) = 1
        /\ optimization_history[1].timestamp = utcnow - 1
        /\ optimization_history[1].original_confidence = signal_in.confidence
        /\ "adjusted_confidence" \in DOMAIN optimized_signal[1]
        /\ optimization_history[1].optimized_confidence =
              optimized_signal[1]["adjusted_confidence"]
        /\ optimization_history[1].optimization_type \in {"ai_enhanced", "basic"}

\* the fields of a signal the calibrator is to leave alone
FrameFields ==
    {"pair", "direction", "entry", "stop_loss", "take_profit", "timeframe", "reason",
     "timestamp"}

\* the confidence fields a calibration writes
CalibrationFields ==
    {"confidence", "adjusted_confidence", "confidence_adjustment", "optimization_type",
     "adjustment_reasons", "ai_confidence_boost", "ai_reasoning"}

\* the dict d differs from the signal sg in calibration fields only
FrameKept(sg, d) ==
    /\ \A f \in FrameFields : f \in DOMAIN d /\ d[f] = sg[f]
    /\ DOMAIN sg \subseteq DOMAIN d
    /\ DOMAIN d \ DOMAIN sg \subseteq CalibrationFields

\* C19: the calibrated signal, and the caller's signal dict after the call,
\* have the pair, direction, entry, stop, target, timeframe, reason and
\* timestamp of the signal handed in, on the local path and on the advisor
\* path, and differ from it in confidence fields only.
C19_CalibrationFrame ==
    optimized_signal # None =>
        /\ FrameKept(signal_in, optimized_signal[1])
        /\ FrameKept(signal_in, signal_after)

\* the advisor path has changed the confidence of a signal
C19_Witness ==
    /\ optimized_signal # None
    /\ connector_enabled
    /\ "ai_reasoning" \in DOMAIN optimized_signal[1]
    /\ optimized_signal[1]["adjusted_confidence"] # signal_in.confidence
    /\ "ai_reasoning" \in DOMAIN signal_after

\* ------------------------------------------------------------------------
\* Properties of the optimization log (SpecLog)
\* ------------------------------------------------------------------------

\* C16: the optimization log never holds more than 1000 records, and its
\* records are the most recent ones made, oldest first: with the advisor
\* enabled every signal is recorded, so the log holds the records of the
\* latest min(n, 1000) of the n signals in the order they were made.
C16_LogCapacity ==
    /\ Len(optimization_history) <= HISTORY_CAP
    /\ connector_enabled =>
          /\ Len(optimization_history) = Min2(utcnow - 1, HISTORY_CAP)
          /\ \A i \in 1..Len(optimization_history) :
                optimization_history[i].timestamp =
                    utcnow - 1 - Len(optimization_history) + i

\* the log is full and its oldest records have been evicted
C16_Witness ==
    /\ Len(optimization_history) = HISTORY_CAP
    /\ optimization_history[1].timestamp > 1
    /\ optimization_history[1].optimization_type = "ai_enhanced"

\* ------------------------------------------------------------------------
\* Properties of the Resampler (SpecRes)
\* ------------------------------------------------------------------------

\* the input candles of the j-th output candle, k candles per bucket
Bucket(j, k) == ((j - 1) * k + 1)..(j * k)

RECURSIVE VolumeOf(_, _)
VolumeOf(d, I) ==
    IF I = {} THEN 0
    ELSE LET i == CHOOSE x \in I : TRUE
         IN  (IF "volume" \in DOMAIN d[i] THEN d[i].volume ELSE 0)
             + VolumeOf(d, I \ {i})

\* C7: the resampler returns floor(n/k) candles in input order, the j-th
\* aggregating input candles (j-1)k+1 .. jk with open = first open, high = max
\* high, low = min low, close = last close, volume = sum of volumes and
\* timestamp = last timestamp of the bucket; the trailing n mod k candles are
\* dropped and empty input gives empty output.
C7_ResampleAggregation ==
    resampled # None =>
        LET k == _timeframe_to_minutes(target_tf)
            out == resampled[1]
        IN  /\ Len(out) = Len(data) \div k
            /\ \A j \in 1..Len(out) :
                  /\ out[j].open = data[(j - 1) * k + 1].open
                  /\ out[j].close = data[j * k].close
                  /\ out[j].timestamp = data[j * k].timestamp
                  /\ \A i \in Bucket(j, k) :
                        out[j].high >= data[i].high /\ out[j].low <= data[i].low
                  /\ \E i \in Bucket(j, k) : out[j].high = data[i].high
                  /\ \E i \in Bucket(j, k) : out[j].low = data[i].low
                  /\ out[j].volume = VolumeOf(data, Bucket(j, k))

\* the case of C7: eleven base candles resampled to 5m give two candles, the
\* last base candle is dropped, and the first bucket is not uniform
C7_Witness ==
    /\ resampled # None
    /\ target_tf = "5m"
    /\ Len(data) = 11
    /\ Len(resampled[1]) = 2
    /\ data[1].high # data[5].high
    /\ data[2].high > data[5].high

\* C8: resampling the already resampled series once more to the same target
\* timeframe gives a series identical to it.
C8_ResampleIdempotence ==
    reresampled # None => reresampled[1] = resampled[1]

\* the candles of a series with timestamp <= t
RECURSIVE UpTo(_, _)
UpTo(series, t) ==
    IF series = <<>> THEN <<>>
    ELSE (IF Head(series).timestamp <= t THEN <<Head(series)>> ELSE <<>>)
         \o UpTo(Tail(series), t)

\* C9: no lookahead: the output candles with timestamp <= t are those the
\* resampler gives for the input candles up to t alone, for every t, so two
\* inputs that agree up to t give the same output candles up to t.
C9_NoLookahead ==
    resampled # None =>
        \A i \in 0..Len(data) :
            LET t == IF i = 0 THEN 0 ELSE data[i].timestamp
            IN  UpTo(resampled[1], t)
                    = UpTo(_resample_data(SubSeq(data, 1, i), target_tf), t)

\* the case of C9: an output candle followed by later input candles
C9_Witness ==
    /\ resampled # None
    /\ target_tf = "5m"
    /\ Len(resampled[1]) = 1
    /\ Len(data) > 5
    /\ data[Len(data)].timestamp > resampled[1][1].timestamp

\* ------------------------------------------------------------------------
\* Properties of the runtime loop (Spec)
\* ------------------------------------------------------------------------

\* the steps of the cycle other than the hand-off
RECURSIVE WithoutHandoff(_)
WithoutHandoff(st) ==
    IF st = <<>> THEN <<>>
    ELSE (IF Head(st) = "handoff" THEN <<>> ELSE <<Head(st)>>)
         \o WithoutHandoff(Tail(st))

\* C10: in a cycle that runs to completion the steps are, in this order,
\* fetch, synchronise, structure/pattern analysis, probability aggregation,
\* decision, calibration, hand-off to the sink; every signal handed to the
\* sink has been through the calibrator.
C10_PipelineOrder ==
    /\ pc = "cycle_done" =>
          /\ WithoutHandoff(steps) = <<"fetch", "synchronize", "structure", "patterns",
                                       "probability", "decide", "calibrate">>
          /\ \A i \in 1..Len(steps) : steps[i] = "handoff" => i = Len(steps)
    /\ \A i \in 1..Len(sink) : "adjusted_confidence" \in DOMAIN sink[i]

\* the stamp of a result all of whose parts were made in cycle n
MadeIn(n) == [structure |-> n, patterns |-> n, probability |-> n]

\* C11: when the Decision Gate is about to read, or has read, the analysis
\* result of a cycle, every part of that result (structure, patterns,
\* probability) was made in that same cycle from the market data fetched in
\* it, and the signals are the gate's output on exactly that result.
C11_NoStaleResults ==
    pc \in {"generate", "notify"} =>
        /\ analysis_result # None
        /\ made_in.result = MadeIn(cycle_count)
        /\ analysis_result[1].structure = analyze(market_data[1])
        /\ analysis_result[1].patterns = scan(market_data[1])
        /\ analysis_result[1].probability =
              calculate(analysis_result[1].structure, analysis_result[1].patterns)
        /\ pc = "notify" => signals = generate(settings, analysis_result, utcnow)

\* the gate has run in the last cycle followed, on a result with a pair in it
C11_Witness ==
    /\ pc = "notify"
    /\ cycle_count = MaxCycles
    /\ made_in.result = MadeIn(MaxCycles)
    /\ DOMAIN analysis_result[1].probability # {}

\* the dict d without the key p
Without(d, p) == [x \in DOMAIN d \ {p} |-> d[x]]

\* what a component's result r holds for the pair q is what the result t holds
SameFor(r, t, q) ==
    /\ (q \in DOMAIN r) = (q \in DOMAIN t)
    /\ q \in DOMAIN r => r[q] = t[q]

\* C12: a pair whose structure analysis (pattern scan) raises has no entry in
\* the structure (pattern) result of the cycle, and every other pair's entry
\* is what the component yields on the data without the failing pair.
C12_PerPairIsolation ==
    /\ "structure" \in DOMAIN work =>
          \A p \in DOMAIN tf_data :
              analyze_pair_raises(tf_data[p]) =>
                  /\ p \notin DOMAIN work["structure"]
                  /\ \A q \in DOMAIN tf_data \ {p} :
                        SameFor(work["structure"], analyze(Without(tf_data, p)), q)
    /\ "patterns" \in DOMAIN work =>
          \A p \in DOMAIN tf_data :
              scan_pair_raises(tf_data[p]) =>
                  /\ p \notin DOMAIN work["patterns"]
                  /\ \A q \in DOMAIN tf_data \ {p} :
                        SameFor(work["patterns"], scan(Without(tf_data, p)), q)

\* the first pair failed in both components and the second pair has its entries
C12_Witness ==
    /\ "patterns" \in DOMAIN work
    /\ PairSeq[1] \in DOMAIN tf_data
    /\ analyze_pair_raises(tf_data[PairSeq[1]])
    /\ scan_pair_raises(tf_data[PairSeq[1]])
    /\ PairSeq[2] \in DOMAIN work["structure"]
    /\ PairSeq[2] \in DOMAIN work["patterns"]

\* what runtime_loop and _safe_analyze_market log on a timeout
TimeoutLines == {"Cycle timeout", "Market analysis timeout"}

\* the elements of a sequence
Range(sq) == {sq[i] : i \in 1..Len(sq)}

\* C13: the step at which the fetch or the analysis of a cycle times out
\* leaves the loop at its head, still running if it was, with nothing handed
\* to the sink and no decision or hand-off among the steps of that cycle.
C13_TimeoutSkipsCycle ==
    [][(last_log' \in TimeoutLines /\ last_log \notin TimeoutLines) =>
          /\ pc' = "loop_top"
          /\ is_running' = is_running
          /\ sink' = sink
          /\ signals' = signals
          /\ Range(steps') \cap {"decide", "handoff"} = {}]_vars

\* an analysis that timed out after the pattern scan, the loop back at its
\* head and able to start a later cycle
C13_Witness ==
    /\ last_log = "Market analysis timeout"
    /\ Range(steps) = {"fetch", "synchronize", "structure", "patterns"}
    /\ pc = "loop_top"
    /\ is_running
    /\ cycle_count < MaxCycles

\* the positions of a cycle at which analysis_result is the result made from
\* the market data of that cycle
AfterAnalysis == {"generate", "notify", "update_learning", "watchdog", "cycle_done"}

\* C21: a pair none of whose timeframe series reaches the minimum history (or
\* for which no candles came) is skipped for the cycle: the result of the
\* cycle has no structure snapshot and no probability result for it and no
\* signal is generated for it.
C21_InsufficientHistorySkipped ==
    (pc \in AfterAnalysis /\ analysis_result # None) =>
        \A p \in DOMAIN market_data[1] :
            market_data[1][p] = "short" =>
                /\ p \notin DOMAIN analysis_result[1]["structure"]
                /\ p \notin DOMAIN analysis_result[1]["probability"]
                /\ pc # "generate" =>
                      \A i \in 1..Len(signals) : signals[i].pair # p

\* C29: when the cycle that has just ended is the k-th in a row to end in a
\* runtime error, the consecutive-failure counter is k, the back-off slept
\* is min(5k, 30) seconds while k is below five, and from the fifth such
\* cycle on the emergency shutdown has set is_running to false.
C29_ConsecutiveFailures ==
    (pc = "loop_top" /\ cycle_count > 0 /\ last_error_cycle = cycle_count) =>
        /\ consecutive_errors = error_streak
        /\ error_streak < max_consecutive_errors =>
              backoff_time = Min2(error_streak * 5, 30)
        /\ error_streak >= max_consecutive_errors => ~is_running

\* ------------------------------------------------------------------------
\* Properties of the learner's store (SpecLearner)
\* ------------------------------------------------------------------------

\* C17: the store that carries feedback across cycles, performance_data,
\* never holds more entries than a retention cap (500, the cap the
\* DeepSeekMemory store applies to a pair's outcomes).
C17_StoreBounded == Len(performance_data) <= SIGNAL_OUTCOMES_CAP

\* C18: writes are idempotent by key, so however often the entry of a signal
\* id is recorded the store holds one entry for that id.
C18_IdempotentWrites ==
    \A i, j \in 1..Len(performance_data) :
        performance_data[i].signal_id = performance_data[j].signal_id => i = j

\* ------------------------------------------------------------------------
\* Properties of the Decision Gate (SpecGate): audit of rejections
\* ------------------------------------------------------------------------

\* what an item of the gate's output keeps of a rejection (DecisionMaker has
\* no attribute that generate writes, so its output is all it leaves behind)
RetainedReasons(item) ==
    IF "rejection_reason" \in DOMAIN item THEN {item["rejection_reason"]} ELSE {}

\* C20: for every pair the gate rejects on risk validation, the reason the
\* validation gave (confidence too low, max drawdown reached, daily loss
\* limit reached) is found in the gate's output after the evaluation.
C20_RejectionReasonRetained ==
    decisions # None =>
        \A p \in GatePairs :
            LET confidence == Get(analysis[1].probability[p], "confidence", 0)
                verdict == validate_trade_signal(settings, confidence, 0, 0)
            IN  ~verdict[1] =>
                    \E i \in SignalsFor(p) : verdict[2] \in RetainedReasons(decisions[1][i])

\* ------------------------------------------------------------------------
\* Properties of the Structure Analyzer (SpecStruct)
\* ------------------------------------------------------------------------

\* the timeframes with at least the minimum history
Qualifying(tfs) == {i \in 1..Len(tfs) : tfs[i].len >= required_data_points}

\* the greatest element of a nonempty set of numbers
Greatest(S) == CHOOSE x \in S : \A y \in S : y <= x

\* the trend the moving averages of a series stand for
TrendOfAverages(ma) ==
    IF ma.short > ma.medium /\ ma.medium > ma.long THEN "bullish"
    ELSE IF ma.short < ma.medium /\ ma.medium < ma.long THEN "bearish"
    ELSE "neutral"

\* C24: the snapshot of a pair with sufficient history reports the trend
\* bullish when short MA > medium MA > long MA, bearish when short MA <
\* medium MA < long MA and neutral otherwise (read on the timeframes with
\* sufficient history, whenever they all stand for the same trend).
C24_MovingAverageTrend ==
    (snapshot # None /\ Qualifying(timeframes) # {}) =>
        LET trends == {TrendOfAverages(timeframes[i].ma) : i \in Qualifying(timeframes)}
        IN  \A t \in {"bullish", "bearish", "neutral"} :
                trends = {t} => snapshot[1].trend_direction = t

\* the snapshot fields a timeframe read writes
ReadFields == {"bos_confirmed", "choch_confirmed", "key_levels", "liquidity_zones",
               "price_action", "volume_analysis", "momentum"}

\* C30: every snapshot field written by a timeframe read (BOS, CHoCH, key
\* levels, liquidity zones, price action, volume analysis, momentum) equals
\* the value read from the last timeframe, in iteration order, that has at
\* least the minimum history, whatever the earlier timeframes read.
C30_LastWriterWins ==
    (snapshot # None /\ Qualifying(timeframes) # {}) =>
        LET last == Greatest(Qualifying(timeframes))
            read == _analyze_timeframe(timeframes[last])
        IN  \A f \in ReadFields : snapshot[1][f] = read[f]

\* a snapshot made from three timeframes of which the first two qualify and
\* read differently and the third is too short
C30_Witness ==
    /\ snapshot # None
    /\ Qualifying(timeframes) = {1, 2}
    /\ Len(timeframes) = 3
    /\ \A f \in ReadFields :
          _analyze_timeframe(timeframes[1])[f] # _analyze_timeframe(timeframes[2])[f]

\* ------------------------------------------------------------------------
\* Properties of start-up (SpecStart)
\* ------------------------------------------------------------------------

\* C28: when no component's initialisation raises, startup() returns True
\* and main enters runtime_loop (so a program that has ended without any
\* initialisation raising has been in the loop).
C28_StartupEntersLoop ==
    boot.raised_in = None =>
        /\ boot.startup # None => boot.startup = Some(TRUE)
        /\ boot.pc \in {"shutdown", "finished"} => boot.entered_loop

\* ------------------------------------------------------------------------
\* Properties of the gap detectors (SpecFvg)
\* ------------------------------------------------------------------------

\* the places k of a series whose candle has its low above the high of the
\* candle before it
BullishGapAt(d) == {k \in 2..Len(d) : d[k].low > d[k - 1].high}

\* a series with exactly one such candle, followed by a candle whose low is
\* still above that high
OneConfirmedBullishGap(d) ==
    /\ Cardinality(BullishGapAt(d)) = 1
    /\ \A k \in BullishGapAt(d) : k < Len(d) /\ d[k + 1].low > d[k - 1].high

\* the events report exactly one fair value gap, bullish and with filled = false
OneBullishUnfilled(events) ==
    /\ Len(events) = 1
    /\ \/ Get(events[1], "direction", "") = "bullish"
       \/ Get(events[1], "type", "") = "bullish_fvg"
    /\ "filled" \in DOMAIN events[1]
    /\ events[1]["filled"] = FALSE

FormedAt(g) == g.timestamp

\* some candle later than the gap-forming ones has a range that meets the
\* gap's price range
ReEntered(d, g) ==
    \E j \in (FormedAt(g) + 1)..Len(d) :
        /\ d[j].low <= Max2(g.price_range[1], g.price_range[2])
        /\ d[j].high >= Min2(g.price_range[1], g.price_range[2])

\* the gap is marked filled or has a mitigation record
MarkedMitigated(g, blocks) ==
    \/ g.filled
    \/ \E b \in 1..Len(blocks) :
          /\ blocks[b].price_range = g.price_range
          /\ blocks[b].original_type = g.type

\* C26: a gap is marked filled / mitigated exactly when some candle later
\* than the gap-forming candles re-enters its price range; a gap no later
\* candle re-enters stays unfilled and has no mitigation record.
C26_FillOnReEntry ==
    detected # None =>
        \A i \in 1..Len(detected[1].fair_value_gaps) :
            LET g == detected[1].fair_value_gaps[i]
            IN  MarkedMitigated(g, detected[1].mitigation_blocks) = ReEntered(candles, g)

====
